---- MODULE Spec2Model ----
(***************************************************************************)
(* State-machine model of the barge-in manager                            *)
(* (apps/backend/src/services/barge-in-manager.ts), of the session        *)
(* handlers of the production orchestrator that drive it, of the          *)
(* orchestrator's session map and thinking mode, and of the stand-alone   *)
(* components (VAD detectors, audio processor, command routers), each     *)
(* exercised by a specification of its own.                               *)
(*                                                                         *)
(* An optional value (pendingBargeIn?, graceTimer?, orbRestore?) is a      *)
(* sequence of length 0 or 1.  Gains are integers in thousandths.          *)
(***************************************************************************)
EXTENDS Integers, Sequences, FiniteSets, TLC

VARIABLES config, mgr, ops, orch, srv, vad, proc, rtr

vars == <<config, mgr, ops, orch, srv, vad, proc, rtr>>

\* the stand-alone components, each driven by a specification of its own
components == <<vad, proc, rtr>>

\* a part of the program that a specification does not instantiate
NotInstantiated == [exists |-> FALSE]

\* ---------------------------------------------------------------- bounds
MaxOps == 5

\* ------------------------------------------------------- types and sets
SpeakerOrder == <<"you", "claude", "guest">>
Speakers == {"you", "claude", "guest"}
Agents == {"claude", "guest"}
BargeInModes == {"immediate", "graceful", "sentence-complete", "disabled"}
Priorities == {"low", "medium", "high"}
Confidences == {8, 9}

maxHistorySize == 100
gracePeriodMs == 300
sentenceCompletionMaxMs == 2000

Range(s) == {s[i] : i \in 1..Len(s)}

\* the members of S in Map insertion order (you, claude, guest)
InOrder(S) == SelectSeq(SpeakerOrder, LAMBDA x : x \in S)

\* ------------------------------------------------------ barge-in manager
NewManager ==
  [speaking |-> [s \in Speakers |-> FALSE],
   priority |-> [s \in Speakers |-> "medium"],
   allowInterruption |-> [s \in Speakers |-> TRUE],
   graceTimer |-> <<>>,
   pendingBargeIn |-> <<>>,
   bargeInHistory |-> <<>>,
   calls |-> <<>>]

\* a callback invocation, as the mock (or the orchestrator) receives it
Call(cb, who, speakers, enable) ==
  [cb |-> cb, interrupter |-> who, speakers |-> speakers, enable |-> enable]

Fire(m, call) == [m EXCEPT !.calls = Append(@, call)]

\* the callback installed under this name throws when it is invoked; nothing
\* in the manager catches it, so the rest of the running call is skipped
Throws(cb) == cb \in config.raising

getActiveSpeakers(m) == InOrder({s \in Speakers : m.speaking[s]})

\* mutant: at the limit the new event is dropped instead of the oldest one
logEvent_NewestDropped(m, event) ==
  LET h == Append(m.bargeInHistory, event)
  IN [m EXCEPT !.bargeInHistory = IF Len(h) > maxHistorySize THEN m.bargeInHistory ELSE h]

logEvent(m, event) ==
  LET h == Append(m.bargeInHistory, event)
  IN [m EXCEPT !.bargeInHistory = IF Len(h) > maxHistorySize THEN Tail(h) ELSE h]

getPriorityLevel(m, speaker) ==
  IF speaker = "you" THEN 100
  ELSE CASE m.priority[speaker] = "high" -> 75
         [] m.priority[speaker] = "medium" -> 50
         [] m.priority[speaker] = "low" -> 25
         [] OTHER -> 50

BargeInEvent(type, interrupter, interrupted, confidence, gracePeriodUsed, duckingApplied) ==
  [type |-> type, interrupter |-> interrupter, interrupted |-> interrupted,
   mode |-> config.mode, confidence |-> confidence,
   gracePeriodUsed |-> gracePeriodUsed, duckingApplied |-> duckingApplied]

\* mutant: the interrupted speakers' speaking flags are left set
executeBargeIn_FlagsKept(m, interrupter, interrupted, confidence, gracePeriodUsed) ==
  LET event == BargeInEvent("barge-in-start", interrupter, interrupted, confidence,
                            gracePeriodUsed, config.duckingEnabled)
      m1 == logEvent(m, event)
      m2 == Fire(m1, Call("onBargeInStart", interrupter, interrupted, FALSE))
      m4 == logEvent(m2, [event EXCEPT !.type = "barge-in-complete"])
      m5 == Fire(m4, Call("onBargeInComplete", interrupter, interrupted, FALSE))
  IN [m5 EXCEPT !.pendingBargeIn = <<>>]

executeBargeIn(m, interrupter, interrupted, confidence, gracePeriodUsed) ==
  LET event == BargeInEvent("barge-in-start", interrupter, interrupted, confidence,
                            gracePeriodUsed, config.duckingEnabled)
      m1 == logEvent(m, event)
      m2 == Fire(m1, Call("onBargeInStart", interrupter, interrupted, FALSE))
      m3 == [m2 EXCEPT !.speaking =
               [s \in Speakers |-> IF s \in Range(interrupted) THEN FALSE ELSE @[s]]]
      m4 == logEvent(m3, [event EXCEPT !.type = "barge-in-complete"])
      m5 == Fire(m4, Call("onBargeInComplete", interrupter, interrupted, FALSE))
  IN IF Throws("onBargeInStart") THEN m2
     ELSE IF Throws("onBargeInComplete") THEN m5
     ELSE [m5 EXCEPT !.pendingBargeIn = <<>>]

\* mutant: the cancellation is neither recorded nor reported
cancelBargeIn_NoEvent(m) ==
  [m EXCEPT !.graceTimer = <<>>, !.pendingBargeIn = <<>>]

\* mutant: the grace timer is left armed
cancelBargeIn_TimerKept(m) ==
  LET m2 == IF m.pendingBargeIn # <<>>
            THEN Fire(logEvent(m, BargeInEvent("barge-in-cancelled",
                                               m.pendingBargeIn[1].interrupter, <<>>,
                                               m.pendingBargeIn[1].confidence, FALSE, FALSE)),
                      Call("onBargeInCancelled", "none", <<>>, FALSE))
            ELSE m
  IN [m2 EXCEPT !.pendingBargeIn = <<>>]

cancelBargeIn(m) ==
  LET m1 == [m EXCEPT !.graceTimer = <<>>]
      m2 == IF m1.pendingBargeIn # <<>>
            THEN Fire(logEvent(m1, BargeInEvent("barge-in-cancelled",
                                                m1.pendingBargeIn[1].interrupter, <<>>,
                                                m1.pendingBargeIn[1].confidence, FALSE, FALSE)),
                      Call("onBargeInCancelled", "none", <<>>, FALSE))
            ELSE m1
  IN IF m1.pendingBargeIn # <<>> /\ Throws("onBargeInCancelled") THEN m2
     ELSE [m2 EXCEPT !.pendingBargeIn = <<>>]

\* the closure handed to setTimeout by the two schedule functions
GraceClosure(interrupter, targets, confidence, delayMs) ==
  [interrupter |-> interrupter, targets |-> targets, confidence |-> confidence,
   delayMs |-> delayMs]

scheduleGracefulBargeIn(m, interrupter, targets, confidence) ==
  LET m1 == IF config.duckingEnabled
            THEN Fire(m, Call("onDuckingRequest", "none", targets, TRUE))
            ELSE m
      m2 == [m1 EXCEPT !.pendingBargeIn =
               <<[interrupter |-> interrupter, confidence |-> confidence]>>]
  IN IF config.duckingEnabled /\ Throws("onDuckingRequest") THEN m1
     ELSE [m2 EXCEPT !.graceTimer =
             <<GraceClosure(interrupter, targets, confidence, gracePeriodMs)>>]

scheduleSentenceCompleteBargeIn(m, interrupter, targets, confidence) ==
  LET m1 == IF config.duckingEnabled
            THEN Fire(m, Call("onDuckingRequest", "none", targets, TRUE))
            ELSE m
      m2 == [m1 EXCEPT !.pendingBargeIn =
               <<[interrupter |-> interrupter, confidence |-> confidence]>>]
  IN IF config.duckingEnabled /\ Throws("onDuckingRequest") THEN m1
     ELSE [m2 EXCEPT !.graceTimer =
             <<GraceClosure(interrupter, targets, confidence, sentenceCompletionMaxMs)>>]

\* mutant: the expiry executes the barge-in with gracePeriodUsed = false
graceTimerCallback_GraceFlagLost(m, t) ==
  LET m0 == [m EXCEPT !.graceTimer = <<>>]
  IN IF m0.speaking[t.interrupter]
     THEN executeBargeIn(m0, t.interrupter, t.targets, t.confidence, FALSE)
     ELSE LET m1 == cancelBargeIn(m0)
          IN IF config.duckingEnabled
             THEN Fire(m1, Call("onDuckingRequest", "none", t.targets, FALSE))
             ELSE m1

\* body of the setTimeout callback; the timer that fired is no longer armed
graceTimerCallback(m, t) ==
  LET m0 == [m EXCEPT !.graceTimer = <<>>]
  IN IF m0.speaking[t.interrupter]
     THEN executeBargeIn(m0, t.interrupter, t.targets, t.confidence, TRUE)
     ELSE LET m1 == cancelBargeIn(m0)
          IN IF m0.pendingBargeIn # <<>> /\ Throws("onBargeInCancelled") THEN m1
             ELSE IF config.duckingEnabled
             THEN Fire(m1, Call("onDuckingRequest", "none", t.targets, FALSE))
             ELSE m1

canInterrupt(m, interrupter, allowedTargets) ==
  \A i \in 1..Len(allowedTargets) :
     \/ getPriorityLevel(m, interrupter) >= getPriorityLevel(m, allowedTargets[i])
     \/ interrupter = "you"

initiateBargeIn(m, interrupter, targets, confidence) ==
  LET allowedTargets == SelectSeq(targets, LAMBDA t : m.allowInterruption[t])
  IN IF Len(allowedTargets) = 0 THEN m
     ELSE IF ~canInterrupt(m, interrupter, allowedTargets) THEN m
     ELSE CASE config.mode = "immediate" ->
                 executeBargeIn(m, interrupter, allowedTargets, confidence, FALSE)
            [] config.mode = "graceful" ->
                 scheduleGracefulBargeIn(m, interrupter, allowedTargets, confidence)
            [] config.mode = "sentence-complete" ->
                 scheduleSentenceCompleteBargeIn(m, interrupter, allowedTargets, confidence)
            [] OTHER -> m

onSpeechStart(m, speaker, confidence) ==
  LET m1 == [m EXCEPT !.speaking[speaker] = TRUE]
      activeSpeakers == SelectSeq(getActiveSpeakers(m1), LAMBDA s : s # speaker)
  IN IF Len(activeSpeakers) > 0 /\ config.mode # "disabled"
     THEN initiateBargeIn(m1, speaker, activeSpeakers, confidence)
     ELSE m1

\* mutant: a speech-end clears every speaker's speaking flag
onSpeechEnd_ClearsAll(m, speaker) ==
  LET m1 == [m EXCEPT !.speaking = [s \in Speakers |-> FALSE]]
  IN IF m1.pendingBargeIn # <<>> /\ m1.pendingBargeIn[1].interrupter = speaker
     THEN cancelBargeIn(m1)
     ELSE m1

onSpeechEnd(m, speaker) ==
  LET m1 == [m EXCEPT !.speaking[speaker] = FALSE]
  IN IF m1.pendingBargeIn # <<>> /\ m1.pendingBargeIn[1].interrupter = speaker
     THEN cancelBargeIn(m1)
     ELSE m1

setSpeakerPriority(m, speaker, priority) == [m EXCEPT !.priority[speaker] = priority]

setAllowInterruption(m, speaker, allow) == [m EXCEPT !.allowInterruption[speaker] = allow]

\* -------------------------------------------------------- audio processor
\* A Buffer is its 16-bit little-endian samples plus the odd trailing byte, if
\* any (tail is <<>> or <<byte>>).
Buffer(samples, tail) == [samples |-> samples, tail |-> tail]

GainUnity == 1000
\* the gain 0 / 0 of a ramp of zero samples
NaN == -1

\* dbToGain(db) = 10^(db/20) for the three profile presets, in thousandths
dbToGain(db) ==
  CASE db = -6 -> 501
    [] db = -12 -> 251
    [] db = -18 -> 126
    [] OTHER -> GainUnity

DUCKING_PROFILES == [soft |-> -6, medium |-> -12, hard |-> -18]

NewAudioProcessor(sampleRate, profile, rampUpMs, rampDownMs, curve) ==
  [sampleRate |-> sampleRate,
   duckingConfig |-> [profile |-> profile, rampUpMs |-> rampUpMs,
                      rampDownMs |-> rampDownMs, curve |-> curve],
   rampState |-> [active |-> FALSE, startGain |-> GainUnity, targetGain |-> GainUnity,
                  currentGain |-> GainUnity, rampSamples |-> 0, elapsedSamples |-> 0,
                  curve |-> curve]]

getDuckingReduction(p) == DUCKING_PROFILES[p.duckingConfig.profile]

startDucking(p, immediate) ==
  LET targetGain == dbToGain(getDuckingReduction(p))
  IN IF immediate
     THEN [p EXCEPT !.rampState =
             [active |-> FALSE, startGain |-> targetGain, targetGain |-> targetGain,
              currentGain |-> targetGain, rampSamples |-> 0, elapsedSamples |-> 0,
              curve |-> p.duckingConfig.curve]]
     ELSE [p EXCEPT !.rampState =
             [active |-> TRUE, startGain |-> p.rampState.currentGain,
              targetGain |-> targetGain, currentGain |-> p.rampState.currentGain,
              rampSamples |-> (p.sampleRate * p.duckingConfig.rampUpMs) \div 1000,
              elapsedSamples |-> 0, curve |-> p.duckingConfig.curve]]

stopDucking(p, immediate) ==
  LET targetGain == GainUnity
  IN IF immediate
     THEN [p EXCEPT !.rampState =
             [active |-> FALSE, startGain |-> targetGain, targetGain |-> targetGain,
              currentGain |-> targetGain, rampSamples |-> 0, elapsedSamples |-> 0,
              curve |-> p.duckingConfig.curve]]
     ELSE [p EXCEPT !.rampState =
             [active |-> TRUE, startGain |-> p.rampState.currentGain,
              targetGain |-> targetGain, currentGain |-> p.rampState.currentGain,
              rampSamples |-> (p.sampleRate * p.duckingConfig.rampDownMs) \div 1000,
              elapsedSamples |-> 0, curve |-> p.duckingConfig.curve]]

\* startGain + (targetGain - startGain) * curvedProgress, progress = elapsed / rampSamples
computeRampGain(rs) ==
  LET e == rs.elapsedSamples
      n == rs.rampSamples
      d == rs.targetGain - rs.startGain
  IN CASE n = 0 -> NaN
       [] rs.curve = "linear" -> rs.startGain + (d * e) \div n
       [] rs.curve = "exponential" -> rs.startGain + (d * e * e) \div (n * n)
       [] rs.curve = "logarithmic" ->
            rs.startGain + (d * (n * n - (n - e) * (n - e))) \div (n * n)
       [] OTHER -> rs.startGain + (d * e) \div n

\* Math.round(sample * gain) saturated to the 16-bit range; a NaN product passes
\* both comparisons and is written as 0
ScaleSample(sample, gain) ==
  LET scaled == (2 * sample * gain + GainUnity) \div (2 * GainUnity)
  IN IF gain = NaN THEN 0
     ELSE IF scaled < -32768 THEN -32768 ELSE IF scaled > 32767 THEN 32767 ELSE scaled

RECURSIVE processSamples(_, _, _)
processSamples(rs, in, out) ==
  IF in = <<>> THEN [rampState |-> rs, out |-> out]
  ELSE LET gain == IF rs.active THEN computeRampGain(rs) ELSE rs.currentGain
           e == rs.elapsedSamples + 1
           rs1 == IF ~rs.active THEN rs
                  ELSE IF e >= rs.rampSamples
                       THEN [rs EXCEPT !.elapsedSamples = e, !.active = FALSE,
                                       !.currentGain = rs.targetGain]
                       ELSE [rs EXCEPT !.elapsedSamples = e, !.currentGain = gain]
       IN processSamples(rs1, Tail(in), Append(out, ScaleSample(Head(in), gain)))

\* result: the processor afterwards, the returned buffer, and whether the call
\* raised.  sampleCount is length / 2, so with an odd trailing byte the loop
\* runs once more after the last whole sample and readInt16LE is out of range;
\* the ramp has by then advanced over the whole samples.
processBuffer(p, buffer) ==
  IF ~p.rampState.active /\ p.rampState.currentGain = GainUnity
  THEN [p |-> p, out |-> buffer, threw |-> FALSE]
  ELSE LET r == processSamples(p.rampState, buffer.samples, <<>>)
           p1 == [p EXCEPT !.rampState = r.rampState]
       IN IF buffer.tail # <<>>
          THEN [p |-> p1, out |-> Buffer(<<>>, <<>>), threw |-> TRUE]
          ELSE [p |-> p1, out |-> Buffer(r.out, <<>>), threw |-> FALSE]

\* ------------------------------------------- orchestrator, one session
OrbStates == {"idle", "listening", "thinking", "speaking", "muted", "error"}
DuckingProfiles == {"soft", "medium", "hard"}

\* samples per second of the session's audio processor, scaled down from the
\* orchestrator's 48 000 so that a ramp spans a few short chunks
SessionSampleRate == 100
\* samples per TTS chunk
ChunkLens == {4, 10}
ChunkAmplitude == 1000

duckingGain == 251

NoOrchestrator == [exists |-> FALSE]

NewOrchestrator(useEnhanced, profile, adapters) ==
  [exists |-> TRUE,
   orbStates |-> [s \in Speakers |-> "idle"],
   useEnhancedFeatures |-> useEnhanced,
   ttsAdapters |-> adapters,
   activeAgentSpeakers |-> {},
   duckingActive |-> FALSE,
   humanSpeaking |-> FALSE,
   orbRestore |-> <<>>,
   audioProcessor |-> [a \in Agents |->
                         NewAudioProcessor(SessionSampleRate, profile, 50, 150, "exponential")],
   vadSpeaking |-> FALSE,
   stopRequests |-> [a \in Agents |-> 0],
   stopsInFlight |-> [a \in Agents |-> 0],
   recorded |-> <<>>]

updateOrbState(o, speaker, state) == [o EXCEPT !.orbStates[speaker] = state]

\* synchronous part of stopAgentPlayback: up to the awaited adapter.stop()
stopAgentPlayback(o, speaker) ==
  IF ~o.ttsAdapters[speaker] THEN o
  ELSE [o EXCEPT !.stopRequests[speaker] = @ + 1, !.stopsInFlight[speaker] = @ + 1]

\* continuation of stopAgentPlayback once adapter.stop() has settled
stopAgentPlaybackResume(o, speaker) ==
  LET o1 == [o EXCEPT !.stopsInFlight[speaker] = @ - 1,
                      !.activeAgentSpeakers = @ \ {speaker}]
  IN IF ~o1.humanSpeaking THEN updateOrbState(o1, speaker, "listening") ELSE o1

RECURSIVE StopAll(_, _)
StopAll(o, speakers) ==
  IF speakers = <<>> THEN o
  ELSE StopAll(IF Head(speakers) # "you" THEN stopAgentPlayback(o, Head(speakers)) ELSE o,
               Tail(speakers))

handleHumanSpeechStart(o) ==
  IF o.humanSpeaking THEN o
  ELSE LET o1 == [o EXCEPT !.humanSpeaking = TRUE, !.duckingActive = TRUE]
           interrupted == InOrder(o1.activeAgentSpeakers)
           o2 == IF Len(interrupted) > 0
                 THEN [StopAll(o1, interrupted) EXCEPT !.activeAgentSpeakers = {}]
                 ELSE o1
           o3 == [o2 EXCEPT !.orbRestore = <<[a \in Agents |-> o2.orbStates[a]]>>]
           o4 == updateOrbState(o3, "you", "speaking")
       IN updateOrbState(updateOrbState(o4, "claude", "muted"), "guest", "muted")

handleHumanSpeechEnd(o) ==
  IF ~o.humanSpeaking THEN o
  ELSE LET o1 == [o EXCEPT !.humanSpeaking = FALSE, !.duckingActive = FALSE]
           o2 == updateOrbState(o1, "you", "listening")
       IN IF o2.orbRestore # <<>>
          THEN [updateOrbState(updateOrbState(o2, "claude", o2.orbRestore[1]["claude"]),
                               "guest", o2.orbRestore[1]["guest"])
                  EXCEPT !.orbRestore = <<>>]
          ELSE updateOrbState(updateOrbState(o2, "claude", "listening"), "guest", "listening")

handleBargeInStart(o, interrupter, interrupted) ==
  updateOrbState(StopAll(o, interrupted), interrupter, "speaking")

handleBargeInComplete(o, interrupter, interrupted) == o

RECURSIVE DuckAll(_, _, _)
DuckAll(ap, speakers, enable) ==
  IF speakers = <<>> THEN ap
  ELSE LET id == Head(speakers)
       IN DuckAll([ap EXCEPT ![id] = IF enable THEN startDucking(@, FALSE)
                                      ELSE stopDucking(@, FALSE)],
                  Tail(speakers), enable)

handleDuckingRequest(o, speakers, enable) ==
  [o EXCEPT !.audioProcessor = DuckAll(@, speakers, enable), !.duckingActive = enable]

\* the callbacks wired in createSession; onBargeInCancelled is not wired
Deliver(o, call) ==
  CASE call.cb = "onBargeInStart" -> handleBargeInStart(o, call.interrupter, call.speakers)
    [] call.cb = "onBargeInComplete" -> handleBargeInComplete(o, call.interrupter, call.speakers)
    [] call.cb = "onDuckingRequest" -> handleDuckingRequest(o, call.speakers, call.enable)
    [] OTHER -> o

RECURSIVE DeliverAll(_, _)
DeliverAll(o, calls) ==
  IF calls = <<>> THEN o ELSE DeliverAll(Deliver(o, Head(calls)), Tail(calls))

\* run the callbacks a manager call fired, in firing order
Dispatch(o, m) == [o |-> DeliverAll(o, m.calls), m |-> [m EXCEPT !.calls = <<>>]]

handleEnhancedHumanSpeechStart(o, m, confidence) ==
  IF ~o.useEnhancedFeatures THEN [o |-> o, m |-> m]
  ELSE LET w == Dispatch(o, onSpeechStart(m, "you", confidence))
       IN [o |-> handleHumanSpeechStart(w.o), m |-> w.m]

handleEnhancedHumanSpeechEnd(o, m, confidence) ==
  IF ~o.useEnhancedFeatures THEN [o |-> o, m |-> m]
  ELSE LET w == Dispatch(o, onSpeechEnd(m, "you"))
       IN [o |-> handleHumanSpeechEnd(w.o), m |-> w.m]

\* Math.round(sample * gain), saturated, on every sample; an odd trailing byte
\* is copied
applyGain(buffer, gain) ==
  Buffer([i \in 1..Len(buffer.samples) |-> ScaleSample(buffer.samples[i], gain)],
         buffer.tail)

handleTtsAudioChunk(o, m, speaker, audioChunk) ==
  LET r == IF o.useEnhancedFeatures
           THEN processBuffer(o.audioProcessor[speaker], audioChunk)
           ELSE [p |-> o.audioProcessor[speaker],
                 out |-> IF o.duckingActive THEN applyGain(audioChunk, duckingGain)
                         ELSE audioChunk,
                 threw |-> FALSE]
      o1 == [o EXCEPT !.audioProcessor[speaker] = r.p,
                      !.recorded = <<[speaker |-> speaker, chunk |-> r.out]>>]
  IN IF r.threw
     THEN [o |-> [o EXCEPT !.audioProcessor[speaker] = r.p], m |-> m]
     ELSE IF speaker \notin o1.activeAgentSpeakers
     THEN LET o2 == updateOrbState([o1 EXCEPT !.activeAgentSpeakers = @ \cup {speaker}],
                                   speaker, "speaking")
          IN IF o2.useEnhancedFeatures
             THEN Dispatch(o2, onSpeechStart(m, speaker, 9))
             ELSE [o |-> o2, m |-> m]
     ELSE [o |-> o1, m |-> m]

handleTtsComplete(o, m, speaker) ==
  LET o1 == [o EXCEPT !.activeAgentSpeakers = @ \ {speaker}]
      w == IF o1.useEnhancedFeatures THEN Dispatch(o1, onSpeechEnd(m, speaker))
           ELSE [o |-> o1, m |-> m]
  IN IF ~w.o.humanSpeaking
     THEN [o |-> updateOrbState(w.o, speaker, "listening"), m |-> w.m]
     ELSE w

handleTtsError(o, m, speaker) ==
  [o |-> [o EXCEPT !.activeAgentSpeakers = @ \ {speaker}], m |-> m]

\* ------------------------------ orchestrator, session map and thinking mode
\* socket ids of the connections the model follows
SessionIds == {"s1", "s2"}
\* the session that orch and mgr belong to
sessionId == "s1"
\* enterThinkingMode calls a behaviour may make
MaxThinking == 2

Conversation == [mode |-> "conversation"]

\* activeSessions, sharedScreen, thinkingTimer, captions: the orchestrator's
\* fields; armedTimers: the timeouts set and neither cleared nor expired, each
\* with the number of the enterThinkingMode call that set it; disconnected: sockets whose disconnect handler has run; snapshot,
\* snapshotCaptions: shared screen and captions of the state.snapshot emitted
\* last; modeThinkingSent, modeNormalSent: rounds of mode.thinking /
\* mode.normal emitted so far
NewServer ==
  [exists |-> TRUE, activeSessions |-> {}, disconnected |-> {},
   sharedScreen |-> Conversation, thinkingTimer |-> <<>>, snapshot |-> <<>>,
   modeThinkingSent |-> 0, modeNormalSent |-> 0,
   captions |-> <<>>, snapshotCaptions |-> <<>>, armedTimers |-> {}]

\* if (this.thinkingTimer) clearTimeout(this.thinkingTimer)
clearThinkingTimer(s) == [s EXCEPT !.armedTimers = @ \ Range(s.thinkingTimer)]

\* Array.slice(0, n)
sliceTo(list, n) == SubSeq(list, 1, IF Len(list) < n THEN Len(list) ELSE n)

\* mutant: the history is cut after the new caption has pushed it over the limit
addCaption_CutLate(s, caption) ==
  [s EXCEPT !.captions = <<caption>> \o sliceTo(@, 20)]

addCaption(s, caption) ==
  [s EXCEPT !.captions = sliceTo(<<caption>> \o @, 20)]

snapshot(s) == [captions |-> sliceTo(s.captions, 6), sharedScreen |-> s.sharedScreen]

\* socket.emit("state.snapshot", this.snapshot())
emitSnapshot(s) ==
  [s EXCEPT !.snapshot = <<snapshot(s).sharedScreen>>,
            !.snapshotCaptions = <<snapshot(s).captions>>]

\* register when createSession resolves
register(s, sid) ==
  emitSnapshot([s EXCEPT !.activeSessions = @ \cup {sid}])

cleanupSession_TimerKept(s, sid, stopOk) ==
  IF sid \notin s.activeSessions THEN s
  ELSE IF stopOk THEN [s EXCEPT !.activeSessions = @ \ {sid}] ELSE s

\* stopOk: recorder.stop() and eventLogger.stop() both resolve; otherwise the
\* catch block is entered before the session is deleted from the map
cleanupSession(s, sid, stopOk) ==
  IF sid \notin s.activeSessions THEN s
  ELSE LET s1 == IF stopOk THEN [s EXCEPT !.activeSessions = @ \ {sid}] ELSE s
       IN IF s1.activeSessions = {}
          THEN [clearThinkingTimer(s1) EXCEPT !.thinkingTimer = <<>>,
                                              !.sharedScreen = Conversation]
          ELSE s1

\* a thinking command: targets as routed, durationMs optional
ThinkingCommands ==
  [action : {"thinking"}, targets : {<<>>, <<"claude">>, <<"guest">>},
   durationMs : {<<>>, <<10000>>}]

\* the timeout set by the call: its closure and the number of the call
ThinkingTimeout(s, sid, speaker, durationMs) ==
  [context |-> sid, speaker |-> speaker, durationMs |-> durationMs,
   entry |-> s.modeThinkingSent + 1]

\* mutant: the timeout of an earlier call is left armed
enterThinkingMode_TimerKept(s, o, sid, command) ==
  LET speaker == IF command.targets # <<>> THEN command.targets[1] ELSE "claude"
      durationMs == IF command.durationMs # <<>> THEN command.durationMs[1] ELSE 30000
      timeout == ThinkingTimeout(s, sid, speaker, durationMs)
      s1 == [s EXCEPT !.sharedScreen =
                        [mode |-> "thinking",
                         thinking |-> [speaker |-> speaker, durationMs |-> durationMs]],
                      !.modeThinkingSent = @ + 1,
                      !.thinkingTimer = <<timeout>>,
                      !.armedTimers = @ \cup {timeout}]
      o1 == updateOrbState(o, speaker, "thinking")
      o2 == IF speaker # "claude" THEN updateOrbState(o1, "claude", "muted") ELSE o1
      o3 == IF speaker # "guest" THEN updateOrbState(o2, "guest", "muted") ELSE o2
  IN [s |-> s1, o |-> o3]

\* mutant: the screen is switched to Thinking and no timeout is set
enterThinkingMode_Unarmed(s, o, sid, command) ==
  LET speaker == IF command.targets # <<>> THEN command.targets[1] ELSE "claude"
      durationMs == IF command.durationMs # <<>> THEN command.durationMs[1] ELSE 30000
      s1 == [clearThinkingTimer(s) EXCEPT
               !.sharedScreen =
                 [mode |-> "thinking",
                  thinking |-> [speaker |-> speaker, durationMs |-> durationMs]],
               !.modeThinkingSent = @ + 1,
               !.thinkingTimer = <<>>]
      o1 == updateOrbState(o, speaker, "thinking")
      o2 == IF speaker # "claude" THEN updateOrbState(o1, "claude", "muted") ELSE o1
      o3 == IF speaker # "guest" THEN updateOrbState(o2, "guest", "muted") ELSE o2
  IN [s |-> s1, o |-> o3]

enterThinkingMode(s, o, sid, command) ==
  LET speaker == IF command.targets # <<>> THEN command.targets[1] ELSE "claude"
      durationMs == IF command.durationMs # <<>> THEN command.durationMs[1] ELSE 30000
      timeout == ThinkingTimeout(s, sid, speaker, durationMs)
      s1 == [clearThinkingTimer(s) EXCEPT
               !.sharedScreen =
                 [mode |-> "thinking",
                  thinking |-> [speaker |-> speaker, durationMs |-> durationMs]],
               !.modeThinkingSent = @ + 1,
               !.thinkingTimer = <<timeout>>,
               !.armedTimers = @ \cup {timeout}]
      o1 == updateOrbState(o, speaker, "thinking")
      o2 == IF speaker # "claude" THEN updateOrbState(o1, "claude", "muted") ELSE o1
      o3 == IF speaker # "guest" THEN updateOrbState(o2, "guest", "muted") ELSE o2
  IN [s |-> s1, o |-> o3]

exitThinkingMode(s, o, sid, speaker) ==
  IF s.sharedScreen.mode # "thinking" THEN [s |-> s, o |-> o]
  ELSE [s |-> [clearThinkingTimer(s) EXCEPT !.thinkingTimer = <<>>,
                                            !.sharedScreen = Conversation,
                                            !.modeNormalSent = @ + 1],
        o |-> updateOrbState(updateOrbState(o, "claude", "listening"),
                             "guest", "listening")]

handleCommand(s, o, sid, command) ==
  IF command.action = "thinking" THEN enterThinkingMode(s, o, sid, command)
  ELSE [s |-> s, o |-> o]

\* a transcript; a final one is captioned and its text is routed: `command`
\* is the router's decision
handleSttTranscript(s, o, sid, text, isFinal, command) ==
  IF sid \notin s.activeSessions \/ ~isFinal THEN [s |-> s, o |-> o]
  ELSE handleCommand(addCaption(s, [speaker |-> "you", text |-> text]),
                     updateOrbState(o, "you", "listening"), sid, command)

\* ------------------------------------------------------------ VAD detectors
\* Thresholds, RMS values and the noise floor are in tenths of a sample step (a
\* value x of the source is 327680 * x); confidences in thousandths.

Min(a, b) == IF a < b THEN a ELSE b
Max(a, b) == IF a > b THEN a ELSE b

\* sample rate given to the detectors, scaled down from 48 000 so that a frame
\* of 20 ms holds two samples
VadSampleRate == 100
\* frames per chunk, frames per behaviour
MaxChunkFrames == 2
MaxFrames == 6

\* options as the test suite passes them; thresholds are the defaults
VadOptions ==
  [sampleRate : {VadSampleRate}, frameDurationMs : {20},
   minSpeechMs : {60}, minSilenceMs : {40},
   adaptiveThreshold : BOOLEAN, confidenceEnabled : BOOLEAN]

speechThreshold == 4915
releaseThreshold == 2621
noiseFloor == 328
noiseFloorMin == 33
noiseFloorMax == 32768
\* smoothed confidences a frame can end up with: below and above the 0.4 gate
ConfidenceLevels == {200, 600}
confidenceGate == 400

\* the fields of both detector classes; trace is the record of the frames
\* processed so far: how each compared with the thresholds in force and which
\* callback it fired
NewVadDetector(kind, options) ==
  [exists |-> TRUE, kind |-> kind,
   frameSamples |-> (options.sampleRate * options.frameDurationMs) \div 1000,
   speechThreshold |-> speechThreshold, releaseThreshold |-> releaseThreshold,
   minSpeechFrames |-> Max(1, options.minSpeechMs \div options.frameDurationMs),
   minSilenceFrames |-> Max(1, options.minSilenceMs \div options.frameDurationMs),
   adaptiveThreshold |-> kind = "enhanced" /\ options.adaptiveThreshold,
   confidenceEnabled |-> kind = "enhanced" /\ options.confidenceEnabled,
   noiseFloor |-> noiseFloor, currentConfidence |-> 0,
   speechFrameCount |-> 0, silenceFrameCount |-> 0, speaking |-> FALSE,
   trace |-> <<>>]

RECURSIVE SumSq(_)
SumSq(frame) == IF frame = <<>> THEN 0 ELSE Head(frame) * Head(frame) + SumSq(Tail(frame))

\* computeRms(frame) >= threshold and <= threshold, compared on the squares
RmsAtLeast(frame, threshold) == 100 * SumSq(frame) >= threshold * threshold * Len(frame)
RmsAtMost(frame, threshold) == 100 * SumSq(frame) <= threshold * threshold * Len(frame)

RECURSIVE Isqrt(_, _, _)
Isqrt(x, lo, hi) ==
  IF lo >= hi THEN lo
  ELSE LET mid == (lo + hi + 1) \div 2
       IN IF mid * mid <= x THEN Isqrt(x, mid, hi) ELSE Isqrt(x, lo, mid - 1)

\* sqrt(energy / frameSize), rounded down
computeRms(frame) == Isqrt((100 * SumSq(frame)) \div Len(frame), 0, 40000)

Traced(v, level, emitted) ==
  [v EXCEPT !.trace = Append(@, [level |-> level, emitted |-> emitted])]

\* mutant: a frame at or below the release threshold outside speech leaves
\* the speech count standing
processAudioFrame_CountKept(v, frame) ==
  IF RmsAtLeast(frame, v.speechThreshold)
  THEN LET v1 == [v EXCEPT !.speechFrameCount = @ + 1, !.silenceFrameCount = 0]
       IN IF ~v1.speaking /\ v1.speechFrameCount >= v1.minSpeechFrames
          THEN Traced([v1 EXCEPT !.speaking = TRUE], "speech", "speech-start")
          ELSE Traced(v1, "speech", "none")
  ELSE IF RmsAtMost(frame, v.releaseThreshold)
  THEN IF v.speaking
       THEN LET v1 == [v EXCEPT !.silenceFrameCount = @ + 1]
            IN IF v1.silenceFrameCount >= v1.minSilenceFrames
               THEN Traced([v1 EXCEPT !.speaking = FALSE, !.speechFrameCount = 0,
                                      !.silenceFrameCount = 0],
                           "release", "speech-end")
               ELSE Traced(v1, "release", "none")
       ELSE Traced(v, "release", "none")
  ELSE Traced([v EXCEPT !.speechFrameCount = Max(0, @ - 1)], "between", "none")

\* VadDetector.processAudio, body of the frame loop
processAudioFrame(v, frame) ==
  IF RmsAtLeast(frame, v.speechThreshold)
  THEN LET v1 == [v EXCEPT !.speechFrameCount = @ + 1, !.silenceFrameCount = 0]
       IN IF ~v1.speaking /\ v1.speechFrameCount >= v1.minSpeechFrames
          THEN Traced([v1 EXCEPT !.speaking = TRUE], "speech", "speech-start")
          ELSE Traced(v1, "speech", "none")
  ELSE IF RmsAtMost(frame, v.releaseThreshold)
  THEN IF v.speaking
       THEN LET v1 == [v EXCEPT !.silenceFrameCount = @ + 1]
            IN IF v1.silenceFrameCount >= v1.minSilenceFrames
               THEN Traced([v1 EXCEPT !.speaking = FALSE, !.speechFrameCount = 0,
                                      !.silenceFrameCount = 0],
                           "release", "speech-end")
               ELSE Traced(v1, "release", "none")
       ELSE Traced([v EXCEPT !.speechFrameCount = 0], "release", "none")
  ELSE Traced([v EXCEPT !.speechFrameCount = Max(0, @ - 1)], "between", "none")

RECURSIVE processAudioLoop(_, _, _)
processAudioLoop(v, samples, offset) ==
  IF offset >= Len(samples) THEN v
  ELSE LET frameSize == Min(v.frameSamples, Len(samples) - offset)
           frame == SubSeq(samples, offset + 1, offset + frameSize)
       IN processAudioLoop(processAudioFrame(v, frame), samples, offset + v.frameSamples)

\* VadDetector.processAudio
processAudio(v, buffer) ==
  IF buffer.samples = <<>> /\ buffer.tail = <<>> THEN v
  ELSE IF buffer.tail # <<>> THEN v
  ELSE processAudioLoop(v, buffer.samples, 0)

updateNoiseFloor(v, frame) ==
  IF ~v.speaking /\ ~RmsAtLeast(frame, v.speechThreshold)
  THEN [v EXCEPT !.noiseFloor =
          Max(noiseFloorMin, Min(noiseFloorMax, (99 * @ + computeRms(frame)) \div 100))]
  ELSE v

\* EnhancedVadDetector.processFrame; confidence is the smoothed confidence
\* that updateConfidence arrives at for this frame
processFrame(v, frame, confidence) ==
  LET v1 == IF v.adaptiveThreshold
            THEN LET n == updateNoiseFloor(v, frame)
                 IN [n EXCEPT !.speechThreshold = (25 * n.noiseFloor) \div 10,
                              !.releaseThreshold = (15 * n.noiseFloor) \div 10]
            ELSE v
      v2 == IF v1.confidenceEnabled THEN [v1 EXCEPT !.currentConfidence = confidence]
            ELSE v1
      effectiveThreshold ==
        IF v2.confidenceEnabled
        THEN (v2.speechThreshold * (1000 - (3 * v2.currentConfidence) \div 10)) \div 1000
        ELSE v2.speechThreshold
  IN IF RmsAtLeast(frame, effectiveThreshold)
     THEN LET v3 == [v2 EXCEPT !.speechFrameCount = @ + 1, !.silenceFrameCount = 0]
          IN IF /\ ~v3.speaking /\ v3.speechFrameCount >= v3.minSpeechFrames
                /\ (~v3.confidenceEnabled \/ v3.currentConfidence >= confidenceGate)
             THEN Traced([v3 EXCEPT !.speaking = TRUE], "speech", "speech-start")
             ELSE Traced(v3, "speech", "none")
     ELSE IF RmsAtMost(frame, v2.releaseThreshold)
     THEN IF v2.speaking
          THEN LET v3 == [v2 EXCEPT !.silenceFrameCount = @ + 1]
               IN IF v3.silenceFrameCount >= v3.minSilenceFrames
                  THEN Traced([v3 EXCEPT !.speaking = FALSE, !.speechFrameCount = 0,
                                         !.silenceFrameCount = 0,
                                         !.currentConfidence = @ \div 2],
                              "release", "speech-end")
                  ELSE Traced(v3, "release", "none")
          ELSE Traced([v2 EXCEPT !.speechFrameCount = 0], "release", "none")
     ELSE Traced([v2 EXCEPT !.speechFrameCount = Max(0, @ - 1)], "between", "none")

RECURSIVE enhancedProcessAudioLoop(_, _, _, _)
enhancedProcessAudioLoop(v, samples, offset, confidences) ==
  IF offset >= Len(samples) THEN v
  ELSE LET frameSize == Min(v.frameSamples, Len(samples) - offset)
           frame == SubSeq(samples, offset + 1, offset + frameSize)
       IN enhancedProcessAudioLoop(processFrame(v, frame, Head(confidences)), samples,
                                   offset + v.frameSamples, Tail(confidences))

\* EnhancedVadDetector.processAudio; confidences: one per frame of the buffer
enhancedProcessAudio(v, buffer, confidences) ==
  IF buffer.samples = <<>> /\ buffer.tail = <<>> THEN v
  ELSE IF buffer.tail # <<>> THEN v
  ELSE enhancedProcessAudioLoop(v, buffer.samples, 0, confidences)

\* reset() of either class
reset(v) ==
  [v EXCEPT !.speechFrameCount = 0, !.silenceFrameCount = 0, !.speaking = FALSE,
            !.currentConfidence = 0,
            !.trace = Append(@, [level |-> "reset", emitted |-> "none"])]

\* ------------------------------------------ manager driven through its API
Init ==
  /\ config \in [mode : BargeInModes, duckingEnabled : BOOLEAN, raising : {{}}]
  /\ mgr = NewManager
  /\ ops = 0
  /\ orch = NoOrchestrator
  /\ srv = NotInstantiated
  /\ vad = NotInstantiated /\ proc = NotInstantiated /\ rtr = NotInstantiated

SpeechStart(s, c) ==
  /\ ops < MaxOps
  /\ mgr' = onSpeechStart(mgr, s, c)
  /\ ops' = ops + 1
  /\ UNCHANGED <<config, orch, srv, components>>

SpeechEnd(s) ==
  /\ ops < MaxOps
  /\ mgr' = onSpeechEnd(mgr, s)
  /\ ops' = ops + 1
  /\ UNCHANGED <<config, orch, srv, components>>

SetSpeakerPriority(s, p) ==
  /\ ops < MaxOps
  /\ mgr' = setSpeakerPriority(mgr, s, p)
  /\ ops' = ops + 1
  /\ UNCHANGED <<config, orch, srv, components>>

SetAllowInterruption(s, b) ==
  /\ ops < MaxOps
  /\ mgr' = setAllowInterruption(mgr, s, b)
  /\ ops' = ops + 1
  /\ UNCHANGED <<config, orch, srv, components>>

GraceTimerFire ==
  /\ mgr.graceTimer # <<>>
  /\ mgr' = graceTimerCallback(mgr, mgr.graceTimer[1])
  /\ UNCHANGED <<config, ops, orch, srv, components>>

Next ==
  \/ \E s \in Speakers, c \in Confidences : SpeechStart(s, c)
  \/ \E s \in Speakers : SpeechEnd(s)
  \/ \E s \in Agents, p \in Priorities : SetSpeakerPriority(s, p)
  \/ \E s \in Speakers, b \in BOOLEAN : SetAllowInterruption(s, b)
  \/ GraceTimerFire

Spec == Init /\ [][Next]_vars

\* ------------------------------------- one registered orchestrator session
SessionInit ==
  /\ config \in [mode : BargeInModes, duckingEnabled : {TRUE}, raising : {{}}]
  /\ mgr = NewManager
  /\ ops = 0
  /\ \E e \in BOOLEAN, pr \in DuckingProfiles, ad \in [Agents -> BOOLEAN] :
        orch = NewOrchestrator(e, pr, ad)
  /\ srv = register(NewServer, sessionId)
  /\ vad = NotInstantiated /\ proc = NotInstantiated /\ rtr = NotInstantiated

Chunk(n) == Buffer([i \in 1..n |-> ChunkAmplitude], <<>>)

\* the session's handlers look the session up in the map and return when it
\* is gone
Registered == sessionId \in srv.activeSessions
\* audio chunks arrive only while the socket is connected
Connected == Registered /\ sessionId \notin srv.disconnected

\* the VAD in use (enhanced or standard) reports a speech-start edge
VadSpeechStart(c) ==
  /\ ops < MaxOps
  /\ Connected
  /\ ~orch.vadSpeaking
  /\ LET o1 == [orch EXCEPT !.vadSpeaking = TRUE]
         w == IF o1.useEnhancedFeatures
              THEN handleEnhancedHumanSpeechStart(o1, mgr, c)
              ELSE [o |-> handleHumanSpeechStart(o1), m |-> mgr]
     IN orch' = w.o /\ mgr' = w.m
  /\ ops' = ops + 1
  /\ UNCHANGED <<config, srv, components>>

VadSpeechEnd(c) ==
  /\ ops < MaxOps
  /\ Connected
  /\ orch.vadSpeaking
  /\ LET o1 == [orch EXCEPT !.vadSpeaking = FALSE]
         w == IF o1.useEnhancedFeatures
              THEN handleEnhancedHumanSpeechEnd(o1, mgr, c)
              ELSE [o |-> handleHumanSpeechEnd(o1), m |-> mgr]
     IN orch' = w.o /\ mgr' = w.m
  /\ ops' = ops + 1
  /\ UNCHANGED <<config, srv, components>>

TtsAudioChunk(a, n) ==
  /\ ops < MaxOps
  /\ Registered
  /\ orch.ttsAdapters[a]
  /\ LET w == handleTtsAudioChunk(orch, mgr, a, Chunk(n))
     IN orch' = w.o /\ mgr' = w.m
  /\ ops' = ops + 1
  /\ UNCHANGED <<config, srv, components>>

TtsComplete(a) ==
  /\ ops < MaxOps
  /\ Registered
  /\ orch.ttsAdapters[a]
  /\ LET w == handleTtsComplete(orch, mgr, a)
     IN orch' = w.o /\ mgr' = w.m
  /\ ops' = ops + 1
  /\ UNCHANGED <<config, srv, components>>

TtsError(a) ==
  /\ ops < MaxOps
  /\ Registered
  /\ orch.ttsAdapters[a]
  /\ LET w == handleTtsError(orch, mgr, a)
     IN orch' = w.o /\ mgr' = w.m
  /\ ops' = ops + 1
  /\ UNCHANGED <<config, srv, components>>

\* an awaited adapter.stop() settles and stopAgentPlayback resumes
StopSettled(a) ==
  /\ orch.stopsInFlight[a] > 0
  /\ orch' = stopAgentPlaybackResume(orch, a)
  /\ UNCHANGED <<config, mgr, ops, srv, components>>

\* the manager's callbacks reach handlers that return when the session is
\* no longer in the map
SessionGraceTimerFire ==
  /\ mgr.graceTimer # <<>>
  /\ LET m1 == graceTimerCallback(mgr, mgr.graceTimer[1])
         w == IF Registered THEN Dispatch(orch, m1)
              ELSE [o |-> orch, m |-> [m1 EXCEPT !.calls = <<>>]]
     IN orch' = w.o /\ mgr' = w.m
  /\ UNCHANGED <<config, ops, srv, components>>

\* the socket's disconnect handler: cleanupSession, run to completion
Disconnect(sid, stopOk) ==
  /\ sid \in srv.activeSessions
  /\ sid \notin srv.disconnected
  /\ srv' = [cleanupSession(srv, sid, stopOk) EXCEPT !.disconnected = @ \cup {sid}]
  /\ UNCHANGED <<config, mgr, ops, orch, components>>

SessionNext ==
  \/ \E c \in Confidences : VadSpeechStart(c)
  \/ \E c \in Confidences : VadSpeechEnd(c)
  \/ \E a \in Agents, n \in ChunkLens : TtsAudioChunk(a, n)
  \/ \E a \in Agents : TtsComplete(a)
  \/ \E a \in Agents : TtsError(a)
  \/ \E a \in Agents : StopSettled(a)
  \/ SessionGraceTimerFire
  \/ \E stopOk \in BOOLEAN : Disconnect(sessionId, stopOk)

SessionSpec == SessionInit /\ [][SessionNext]_vars

\* --------------------------------- the orchestrator and its connections
ServerInit ==
  /\ config = [mode |-> "graceful", duckingEnabled |-> TRUE, raising |-> {}]
  /\ mgr = NewManager
  /\ ops = 0
  /\ orch = NewOrchestrator(FALSE, "medium", [a \in Agents |-> TRUE])
  /\ srv = NewServer
  /\ vad = NotInstantiated /\ proc = NotInstantiated /\ rtr = NotInstantiated

\* a new connection; socket ids are never reused
Register(sid) ==
  /\ sid \notin srv.activeSessions \cup srv.disconnected
  /\ srv' = register(srv, sid)
  /\ UNCHANGED <<config, mgr, ops, orch, components>>

\* a final transcript of session sid that its router made a thinking command
SttTranscript(sid, command) ==
  /\ srv.modeThinkingSent < MaxThinking
  /\ LET w == handleSttTranscript(srv, orch, sid, srv.modeThinkingSent + 1, TRUE, command)
     IN srv' = w.s /\ orch' = w.o
  /\ UNCHANGED <<config, mgr, ops, components>>

\* the setTimeout armed by enterThinkingMode expires
ThinkingTimerFire ==
  /\ \E t \in srv.armedTimers :
       LET w == exitThinkingMode([srv EXCEPT !.armedTimers = @ \ {t}], orch,
                                 t.context, t.speaker)
       IN srv' = w.s /\ orch' = w.o
  /\ UNCHANGED <<config, mgr, ops, components>>

ServerNext ==
  \/ \E sid \in SessionIds : Register(sid)
  \/ \E sid \in SessionIds, command \in ThinkingCommands : SttTranscript(sid, command)
  \/ ThinkingTimerFire
  \/ \E sid \in SessionIds, stopOk \in BOOLEAN : Disconnect(sid, stopOk)

ServerSpec == ServerInit /\ [][ServerNext]_vars

\* ------------------------------------------- the orchestrator's captions
\* final transcripts of live sessions a behaviour may deliver
MaxCaptions == 22

\* a decision of the router that is not a thinking command
AddressCommand == [action |-> "address", targets |-> <<"claude">>, durationMs |-> <<>>]

\* a transcript of session sid; ops counts the final transcripts delivered
\* to sessions in the map and is the text of the next one
Transcript(sid, isFinal) ==
  /\ ops < MaxCaptions
  /\ LET w == handleSttTranscript(srv, orch, sid, ops + 1, isFinal, AddressCommand)
     IN srv' = w.s /\ orch' = w.o
  /\ ops' = IF isFinal /\ sid \in srv.activeSessions THEN ops + 1 ELSE ops
  /\ UNCHANGED <<config, mgr, components>>

\* client.request-state
RequestState(sid) ==
  /\ sid \in srv.activeSessions
  /\ srv' = emitSnapshot(srv)
  /\ UNCHANGED <<config, mgr, ops, orch, components>>

CaptionNext ==
  \/ \E sid \in SessionIds : Register(sid)
  \/ \E sid \in SessionIds, isFinal \in BOOLEAN : Transcript(sid, isFinal)
  \/ \E sid \in SessionIds : RequestState(sid)
  \/ \E sid \in SessionIds, stopOk \in BOOLEAN : Disconnect(sid, stopOk)

CaptionSpec == ServerInit /\ [][CaptionNext]_vars

\* ---------------------------------------------- a VAD detector on its own
VadInit ==
  /\ config = NotInstantiated /\ mgr = NotInstantiated /\ ops = 0
  /\ orch = NoOrchestrator /\ srv = NotInstantiated
  /\ proc = NotInstantiated /\ rtr = NotInstantiated
  /\ \E kind \in {"standard", "enhanced"}, options \in VadOptions :
        vad = NewVadDetector(kind, options)

\* sample amplitudes the chunks are made of: at or below the release
\* threshold, between the thresholds, at or above the speech threshold
Amplitudes == IF vad.adaptiveThreshold THEN {0, 60, 300} ELSE {0, 300, 1000}

\* frames of constant amplitude, the last one lastLen samples long
RECURSIVE ChunkSamples(_, _, _)
ChunkSamples(levels, n, lastLen) ==
  IF levels = <<>> THEN <<>>
  ELSE [i \in 1..(IF Len(levels) = 1 THEN lastLen ELSE n) |-> Head(levels)]
         \o ChunkSamples(Tail(levels), n, lastLen)

ProcessAudio(levels, lastLen, tail, confidences) ==
  /\ Len(vad.trace) + Len(levels) <= MaxFrames
  /\ LET buffer == Buffer(ChunkSamples(levels, vad.frameSamples, lastLen), tail)
     IN vad' = IF vad.kind = "enhanced" THEN enhancedProcessAudio(vad, buffer, confidences)
               ELSE processAudio(vad, buffer)
  /\ UNCHANGED <<config, mgr, ops, orch, srv, proc, rtr>>

VadReset ==
  /\ vad.trace # <<>>
  /\ Len(vad.trace) < MaxFrames
  /\ vad.trace[Len(vad.trace)].level # "reset"
  /\ vad' = reset(vad)
  /\ UNCHANGED <<config, mgr, ops, orch, srv, proc, rtr>>

VadNext ==
  \/ \E k \in 1..MaxChunkFrames :
       \E levels \in [1..k -> Amplitudes], lastLen \in {1, vad.frameSamples},
          tail \in {<<>>, <<1>>},
          confidences \in [1..k -> IF vad.confidenceEnabled THEN ConfidenceLevels ELSE {0}] :
         ProcessAudio(levels, lastLen, tail, confidences)
  \/ VadReset

VadSpec == VadInit /\ [][VadNext]_vars

\* a detector that needs one frame to start and one to end a speech
QuickVadOptions ==
  [sampleRate : {VadSampleRate}, frameDurationMs : {20},
   minSpeechMs : {20}, minSilenceMs : {20},
   adaptiveThreshold : {FALSE}, confidenceEnabled : BOOLEAN]

QuickVadInit ==
  /\ config = NotInstantiated /\ mgr = NotInstantiated /\ ops = 0
  /\ orch = NoOrchestrator /\ srv = NotInstantiated
  /\ proc = NotInstantiated /\ rtr = NotInstantiated
  /\ \E kind \in {"standard", "enhanced"}, options \in QuickVadOptions :
        vad = NewVadDetector(kind, options)

QuickVadSpec == QuickVadInit /\ [][VadNext]_vars

\* the grace timer is a setTimeout: once armed it fires unless it is cleared
FairSpec == Spec /\ WF_vars(GraceTimerFire)

\* ------------------------- the manager with an onBargeInStart that throws
RaisingInit ==
  /\ config \in [mode : BargeInModes, duckingEnabled : BOOLEAN,
                  raising : {{"onBargeInStart"}}]
  /\ mgr = NewManager
  /\ ops = 0
  /\ orch = NoOrchestrator
  /\ srv = NotInstantiated
  /\ vad = NotInstantiated /\ proc = NotInstantiated /\ rtr = NotInstantiated

RaisingSpec == RaisingInit /\ [][Next]_vars

\* ------------------------------------------------- one audio processor alone
\* samples per second, scaled down from 48 000 so that a ramp is a few samples
AudioSampleRate == 100
\* longest buffer, in whole samples, and number of calls explored
MaxBufferSamples == 2
MaxAudioCalls == 5

\* ramp-up times of 0 and 3 samples, ramp-down of 2 samples
AudioConfigs ==
  [profile : {"medium"}, rampUpMs : {0, 30}, rampDownMs : {20},
   curve : {"linear", "exponential", "logarithmic"}]

NoCall == [op |-> "none", before |-> NotInstantiated, in |-> Buffer(<<>>, <<>>),
           out |-> Buffer(<<>>, <<>>), threw |-> FALSE]

AudioInit ==
  /\ config = NotInstantiated /\ mgr = NotInstantiated /\ ops = 0
  /\ orch = NoOrchestrator /\ srv = NotInstantiated
  /\ vad = NotInstantiated /\ rtr = NotInstantiated
  /\ \E c \in AudioConfigs :
        proc = [exists |-> TRUE,
                p |-> NewAudioProcessor(AudioSampleRate, c.profile, c.rampUpMs,
                                        c.rampDownMs, c.curve),
                last |-> NoCall, oddSeen |-> FALSE]

StartDucking(immediate) ==
  /\ ops < MaxAudioCalls
  /\ proc' = [proc EXCEPT !.p = startDucking(proc.p, immediate),
                           !.last = [NoCall EXCEPT !.op = "startDucking"]]
  /\ ops' = ops + 1
  /\ UNCHANGED <<config, mgr, orch, srv, vad, rtr>>

StopDucking(immediate) ==
  /\ ops < MaxAudioCalls
  /\ proc' = [proc EXCEPT !.p = stopDucking(proc.p, immediate),
                           !.last = [NoCall EXCEPT !.op = "stopDucking"]]
  /\ ops' = ops + 1
  /\ UNCHANGED <<config, mgr, orch, srv, vad, rtr>>

\* sample values and the odd trailing byte the buffers are made of
BufferSamples == {1000, -32768}
Buffers ==
  {Buffer(samples, tail) :
     samples \in UNION {[1..n -> BufferSamples] : n \in 0..MaxBufferSamples},
     tail \in {<<>>, <<7>>}}

ProcessBuffer(buffer) ==
  /\ ops < MaxAudioCalls
  /\ LET r == processBuffer(proc.p, buffer)
     IN proc' = [proc EXCEPT !.p = r.p,
                             !.last = [op |-> "processBuffer", before |-> proc.p,
                                       in |-> buffer, out |-> r.out, threw |-> r.threw],
                             !.oddSeen = @ \/ buffer.tail # <<>>]
  /\ ops' = ops + 1
  /\ UNCHANGED <<config, mgr, orch, srv, vad, rtr>>

AudioNext ==
  \/ \E immediate \in BOOLEAN : StartDucking(immediate)
  \/ \E immediate \in BOOLEAN : StopDucking(immediate)
  \/ \E buffer \in Buffers : ProcessBuffer(buffer)

AudioSpec == AudioInit /\ [][AudioNext]_vars

\* ------------------------------------------------------- command routers
\* Texts are strings; the patterns below are the source's regular expressions
\* written as sets of alternative sequences of elements: Lit(alts) one of the
\* literal strings, Cls(chars, min) at least min characters of a class,
\* WordBoundary the assertion \b.
Char(s, i) == SubSeq(s, i, i)
CharsOf(s) == {Char(s, i) : i \in 1..Len(s)}

UpperCase == "ABCDEFGHIJKLMNOPQRSTUVWXYZ"
LowerCase == "abcdefghijklmnopqrstuvwxyz"
Digits == "0123456789"
WordChars == CharsOf(UpperCase) \cup CharsOf(LowerCase) \cup CharsOf(Digits) \cup {"_"}
Whitespace == {" "}

lowerChar(c) ==
  IF c \in CharsOf(UpperCase)
  THEN Char(LowerCase, CHOOSE i \in 1..Len(UpperCase) : Char(UpperCase, i) = c)
  ELSE c

RECURSIVE lowerFrom(_, _)
lowerFrom(s, i) == IF i > Len(s) THEN "" ELSE lowerChar(Char(s, i)) \o lowerFrom(s, i + 1)

toLowerCase(s) == lowerFrom(s, 1)

slice(s, from) == SubSeq(s, from + 1, Len(s))

\* String.trim
trim(s) ==
  LET kept == {i \in 1..Len(s) : Char(s, i) \notin Whitespace}
  IN IF kept = {} THEN ""
     ELSE SubSeq(s, CHOOSE i \in kept : \A j \in kept : i <= j,
                 CHOOSE i \in kept : \A j \in kept : j <= i)

startsWithAt(s, i, sub) == i + Len(sub) - 1 <= Len(s) /\ SubSeq(s, i, i + Len(sub) - 1) = sub
startsWith(s, sub) == startsWithAt(s, 1, sub)
includes(s, sub) == \E i \in 1..(Len(s) + 1) : startsWithAt(s, i, sub)

Lit(alts) == [t |-> "lit", alts |-> alts, chars |-> {}, min |-> 0]
Cls(chars, min) == [t |-> "cls", alts |-> {}, chars |-> chars, min |-> min]
WordBoundary == [t |-> "b", alts |-> {}, chars |-> {}, min |-> 0]

IsWordChar(s, i) == i >= 1 /\ i <= Len(s) /\ Char(s, i) \in WordChars
AtWordBoundary(s, i) == IsWordChar(s, i - 1) # IsWordChar(s, i)

\* the positions just after element e matched at position i
StepEnds(s, i, e) ==
  CASE e.t = "lit" -> {i + Len(a) : a \in {a \in e.alts : startsWithAt(s, i, a)}}
    [] e.t = "cls" -> {j \in (i + e.min)..(Len(s) + 1) :
                         \A k \in i..(j - 1) : Char(s, k) \in e.chars}
    [] e.t = "b" -> IF AtWordBoundary(s, i) THEN {i} ELSE {}

\* the positions just after elements k.. of a sequence matched from one of P
RECURSIVE MatchSeq(_, _, _, _)
MatchSeq(s, seq, k, P) ==
  IF k > Len(seq) THEN P
  ELSE MatchSeq(s, seq, k + 1, UNION {StepEnds(s, p, seq[k]) : p \in P})

\* the positions just after a match of the pattern that starts at position i
MatchEnds(s, i, pattern) == UNION {MatchSeq(s, seq, 1, {i}) : seq \in pattern}

SetMax(S) == CHOOSE x \in S : \A y \in S : y <= x
SetMin(S) == CHOOSE x \in S : \A y \in S : x <= y

\* RegExp.test and String.match without the g flag: the leftmost match,
\* <<start, end>> with end just after it (the patterns' repetitions are greedy
\* and are followed by nothing that would make them give characters back)
test(s, pattern) == \E i \in 1..(Len(s) + 1) : MatchEnds(s, i, pattern) # {}
matchAt(s, i, pattern) == <<i, SetMax(MatchEnds(s, i, pattern))>>
match(s, pattern) ==
  IF ~test(s, pattern) THEN <<>>
  ELSE matchAt(s, SetMin({i \in 1..(Len(s) + 1) : MatchEnds(s, i, pattern) # {}}), pattern)
matchAtStart(s, pattern) ==
  IF MatchEnds(s, 1, pattern) = {} THEN <<>> ELSE matchAt(s, 1, pattern)

\* String.split(/\s+/) of a trimmed, non-empty string
split(s) ==
  LET starts == {i \in 1..Len(s) : Char(s, i) \notin Whitespace
                                     /\ (i = 1 \/ Char(s, i - 1) \in Whitespace)}
      start(n) == CHOOSE i \in starts : Cardinality({j \in starts : j < i}) = n - 1
      end(i) == CHOOSE j \in i..Len(s) :
                  /\ \A k \in i..j : Char(s, k) \notin Whitespace
                  /\ (j = Len(s) \/ Char(s, j + 1) \in Whitespace)
  IN [n \in 1..Cardinality(starts) |-> SubSeq(s, start(n), end(start(n)))]

RECURSIVE join(_)
join(words) ==
  IF words = <<>> THEN ""
  ELSE IF Len(words) = 1 THEN words[1]
  ELSE words[1] \o " " \o join(Tail(words))

\* Number.parseInt(digits, 10)
RECURSIVE parseInt(_)
parseInt(s) ==
  IF s = "" THEN 0
  ELSE 10 * parseInt(SubSeq(s, 1, Len(s) - 1))
         + ((CHOOSE i \in 1..Len(Digits) : Char(Digits, i) = Char(s, Len(s))) - 1)

Sp1 == Cls(Whitespace, 1)
Sp0 == Cls(Whitespace, 0)
Separators == Whitespace \cup {":", "-", ","}

RECURSIVE levenshteinRow(_, _, _, _, _)
\* row i of the matrix, row[j + 1] holding matrix[i][j]
levenshteinRow(prev, a, ch, j, row) ==
  IF Len(row) > Len(a) THEN row
  ELSE LET v == IF ch = Char(a, j) THEN prev[j]
                ELSE Min(Min(prev[j], row[j]), prev[j + 1]) + 1
       IN levenshteinRow(prev, a, ch, j + 1, Append(row, v))

RECURSIVE levenshteinRows(_, _, _, _)
levenshteinRows(prev, a, b, i) ==
  IF i > Len(b) THEN prev[Len(a) + 1]
  ELSE levenshteinRows(levenshteinRow(prev, a, Char(b, i), 1, <<i>>), a, b, i + 1)

levenshteinDistance(a, b) ==
  IF Len(a) = 0 THEN Len(b)
  ELSE IF Len(b) = 0 THEN Len(a)
  ELSE levenshteinRows([j \in 1..(Len(a) + 1) |-> j - 1], a, b, 1)

\* ---- EnhancedCommandRouter
addressKeywords ==
  <<"claude", "guest", "both", "everyone", "all", "showrunner", "autopilot", "basil">>
thinkingKeywords ==
  {"thinking", "think", "pause", "wait", "hold", "moment", "beat", "countdown",
   "processing", "consider", "ponder", "reflect"}
bargeInKeywords ==
  {"interrupt", "stop", "halt", "quiet", "silence", "mute", "hold up", "wait a minute"}
duckingKeywords == {"lower", "reduce", "quieter", "softer", "volume down", "turn down"}
fuzzyThreshold == 2

\* the first element of a list, in list order, that is in S
FirstOf(list, S) == list[SetMin({i \in 1..Len(list) : list[i] \in S})]
Elements(list) == {list[i] : i \in 1..Len(list)}

NewRouter(kind) ==
  [exists |-> TRUE, kind |-> kind,
   context |-> [lastAddressed |-> <<>>, lastAction |-> <<>>],
   last |-> <<>>]

mapKeywordToTargets(keyword) ==
  CASE keyword = "claude" -> <<"claude">>
    [] keyword = "guest" -> <<"guest">>
    [] keyword = "basil" -> <<"you">>
    [] keyword \in {"both", "everyone", "all"} -> <<"claude", "guest">>
    [] keyword \in {"showrunner", "autopilot"} -> <<"claude">>
    [] OTHER -> <<>>

Addressed(targets, remainder, confidence, keyword, fuzzyMatched) ==
  <<[targets |-> targets, remainder |-> remainder, confidence |-> confidence,
     matchedKeywords |-> <<keyword>>, fuzzyMatched |-> fuzzyMatched]>>

fuzzyMatchAddress(normalized) ==
  LET words == split(normalized)
      Fits(i, k) ==
        LET keyword == addressKeywords[k]
            distance == levenshteinDistance(words[i], keyword)
        IN /\ distance <= fuzzyThreshold /\ distance > 0
           /\ 10 * (Len(keyword) - distance) >= 6 * Len(keyword)
      found == {p \in (1..Min(3, Len(words))) \X (1..Len(addressKeywords)) : Fits(p[1], p[2])}
  IN IF found = {} THEN <<>>
     ELSE LET i == SetMin({p[1] : p \in found})
              k == SetMin({p[2] : p \in {q \in found : q[1] = i}})
              keyword == addressKeywords[k]
              distance == levenshteinDistance(words[i], keyword)
          IN Addressed(mapKeywordToTargets(keyword),
                       join(SubSeq(words, i + 1, Len(words))),
                       (700 * (Len(keyword) - distance)) \div Len(keyword),
                       keyword, TRUE)

directPattern(keyword) ==
  {<<Lit({"hey"}), Sp1, Lit({"@", ""}), Lit({keyword}), Cls(Separators, 1)>>,
   <<Lit({"@", ""}), Lit({keyword}), Cls(Separators, 1)>>}
inlinePattern(keyword) == {<<WordBoundary, Lit({keyword}), Cls(Separators, 1)>>}

extractAddress(normalized) ==
  LET direct == {k \in Elements(addressKeywords) :
                   matchAtStart(normalized, directPattern(k)) # <<>>}
      atStart == {k \in Elements(addressKeywords) :
                    startsWith(normalized, k \o ",") \/ startsWith(normalized, k \o " ")}
      inline == {k \in Elements(addressKeywords) :
                   LET m == match(normalized, inlinePattern(k))
                   IN m # <<>> /\ m[1] - 1 < 20}
  IN IF direct # {}
     THEN LET keyword == FirstOf(addressKeywords, direct)
              m == matchAtStart(normalized, directPattern(keyword))
          IN Addressed(mapKeywordToTargets(keyword), trim(slice(normalized, m[2] - 1)),
                       900, keyword, FALSE)
     ELSE IF atStart # {}
     THEN LET keyword == FirstOf(addressKeywords, atStart)
              rest == slice(normalized, Len(keyword))
              m == matchAtStart(rest, {<<Cls({",", " "}, 1)>>})
          IN Addressed(mapKeywordToTargets(keyword),
                       IF m = <<>> THEN rest ELSE slice(rest, m[2] - 1),
                       700, keyword, FALSE)
     ELSE IF inline # {}
     THEN LET keyword == FirstOf(addressKeywords, inline)
              m == match(normalized, inlinePattern(keyword))
          IN Addressed(mapKeywordToTargets(keyword), trim(slice(normalized, m[2] - 1)),
                       550, keyword, FALSE)
     ELSE fuzzyMatchAddress(normalized)

continuationPatterns ==
  {<<Lit({"and"}), Sp1, Lit({"also", "too", "as well"})>>,
   <<Lit({"also", "too", "as well"})>>,
   <<Lit({"continue"})>>,
   <<Lit({"same"}), Sp1, Lit({"to"}), Sp1, Lit({"you"})>>,
   <<Lit({"you"}), Sp1, Lit({"too"})>>}

resolveContextualTargets(context, normalized, explicitTargets) ==
  IF explicitTargets # <<>> THEN explicitTargets
  ELSE IF /\ matchAtStart(normalized, continuationPatterns) # <<>>
          /\ context.lastAddressed # <<>>
  THEN context.lastAddressed[1]
  ELSE IF /\ test(normalized, {<<WordBoundary, Lit({"same", "ditto"}), WordBoundary>>})
          /\ context.lastAddressed # <<>>
  THEN context.lastAddressed[1]
  ELSE <<>>

DigitChars == CharsOf(Digits)

thinkingPatterns ==
  {<<Lit({"thinking"}), Sp1, Lit({"mode"})>>,
   <<Lit({"take"}), Sp1, Lit({"a"}), Sp1, Lit({"beat", "moment", "second"})>>,
   <<Lit({"need"}), Sp1, Lit({"to"}), Sp1, Lit({"think"})>>,
   <<Lit({"give"}), Sp1, Lit({"me", "us", "them"}), Sp1, Cls(DigitChars, 0), Sp0,
     Lit({"second", "minute", "time"})>>,
   <<Lit({"countdown"})>>,
   <<Lit({"time"}), Sp1, Lit({"to"}), Sp1, Lit({"think", "process", "consider"})>>,
   <<Lit({"let"}), Sp1, Lit({"me", "us", "them"}), Sp1, Lit({"think", "process", "ponder"})>>,
   <<Lit({"pause"}), Sp1, Lit({"for", "to"})>>}

detectAction(remainder, targets, fullText) ==
  LET trimmed == trim(remainder)
  IN IF trimmed = "" THEN (IF targets # <<>> THEN "address" ELSE "broadcast")
     ELSE IF \E kw \in bargeInKeywords : includes(trimmed, kw) THEN "barge-in-control"
     ELSE IF \E kw \in duckingKeywords : includes(trimmed, kw) THEN "ducking-control"
     ELSE IF \/ \E kw \in thinkingKeywords : includes(trimmed, kw)
             \/ test(trimmed, thinkingPatterns)
     THEN "thinking"
     ELSE IF targets # <<>> THEN "address" ELSE "broadcast"

\* a decision; durationMs is <<>> when undefined
Decision(raw, normalized, targets, remainder, action, durationMs, confidence, context) ==
  [raw |-> raw, normalized |-> normalized, targets |-> targets, remainder |-> remainder,
   action |-> action, durationMs |-> durationMs, confidence |-> confidence,
   context |-> context]

bargeInPatterns ==
  <<[patterns |-> {<<WordBoundary, Lit({"stop", "halt", "interrupt", "quiet", "silence"}),
                     WordBoundary>>},
     confidence |-> 800],
    [patterns |-> {<<WordBoundary, Lit({"hold"}), Sp1, Lit({"up"}), WordBoundary>>,
                   <<WordBoundary, Lit({"wait"}), Sp1, Lit({"a"}), Sp1, Lit({"minute"}),
                     WordBoundary>>},
     confidence |-> 750],
    [patterns |-> {<<WordBoundary, Lit({"mute"}), Sp1, Lit({"everyone", "all"}),
                     WordBoundary>>},
     confidence |-> 850]>>

duckingPatterns ==
  <<[patterns |-> {<<WordBoundary, Lit({"lower", "reduce", "quieter", "softer"}), Sp1,
                     Lit({"volume", "sound"}), WordBoundary>>},
     confidence |-> 800],
    [patterns |-> {<<WordBoundary, Lit({"turn"}), Sp1, Lit({"down"}), WordBoundary>>},
     confidence |-> 750],
    [patterns |-> {<<WordBoundary, Lit({"volume"}), Sp1, Lit({"down"}), WordBoundary>>},
     confidence |-> 800]>>

\* the first entry of the list with a pattern that matches, as <<entry>>
FirstMatching(list, normalized) ==
  LET hits == {i \in 1..Len(list) : test(normalized, list[i].patterns)}
  IN IF hits = {} THEN <<>> ELSE <<list[SetMin(hits)]>>

detectBargeInControl(context, normalized) ==
  LET hit == FirstMatching(bargeInPatterns, normalized)
  IN IF hit = <<>> THEN <<>>
     ELSE <<Decision(normalized, normalized, <<"claude", "guest">>, "", "barge-in-control",
                     <<>>, hit[1].confidence, context)>>

detectDuckingControl(context, normalized) ==
  LET hit == FirstMatching(duckingPatterns, normalized)
  IN IF hit = <<>> THEN <<>>
     ELSE <<Decision(normalized, normalized, <<"claude", "guest">>, "", "ducking-control",
                     <<>>, hit[1].confidence, context)>>

\* capture group 1 of a match that starts with (\d+)
CapturedNumber(s, m) ==
  parseInt(SubSeq(s, m[1], SetMax(MatchEnds(s, m[1], {<<Cls(DigitChars, 1)>>})) - 1))

extractDuration(remainder) ==
  LET secondsMatch == match(remainder, {<<Cls(DigitChars, 1), Sp0, Lit({"second", "sec"})>>,
                                        <<Cls(DigitChars, 1), Sp0, Lit({"s"}), WordBoundary>>})
      minutesMatch == match(remainder, {<<Cls(DigitChars, 1), Sp0, Lit({"minute", "min"})>>,
                                        <<Cls(DigitChars, 1), Sp0, Lit({"m"}), WordBoundary>>})
  IN IF secondsMatch # <<>> THEN CapturedNumber(remainder, secondsMatch) * 1000
     ELSE IF minutesMatch # <<>> THEN CapturedNumber(remainder, minutesMatch) * 60000
     ELSE IF test(remainder, {<<WordBoundary, Lit({"quick", "brief", "short"}), Sp1,
                                Lit({"moment", "pause", "beat"})>>})
     THEN 10000
     ELSE IF test(remainder, {<<WordBoundary, Lit({"long"}), Sp1,
                                Lit({"moment", "pause", "beat"})>>})
     THEN 60000
     ELSE 30000

\* a value bound to a name: In(value)
Bind(value, In(_)) == In(value)

\* result: the router afterwards and the decision, <<>> for null
route(r, text) ==
  Bind(trim(text), LAMBDA raw :
  IF raw = "" THEN [r |-> r, result |-> <<>>] ELSE
  Bind(toLowerCase(raw), LAMBDA normalized :
  Bind(detectBargeInControl(r.context, normalized), LAMBDA bargeInCmd :
  IF bargeInCmd # <<>> THEN [r |-> r, result |-> bargeInCmd] ELSE
  Bind(detectDuckingControl(r.context, normalized), LAMBDA duckingCmd :
  IF duckingCmd # <<>> THEN [r |-> r, result |-> duckingCmd] ELSE
  Bind(extractAddress(normalized), LAMBDA addressed :
  Bind(IF addressed # <<>> THEN addressed[1].targets ELSE <<>>, LAMBDA targets :
  Bind(IF addressed # <<>> THEN addressed[1].remainder ELSE normalized, LAMBDA remainder :
  Bind(detectAction(remainder, targets, normalized), LAMBDA action :
  Bind(resolveContextualTargets(r.context, normalized, targets), LAMBDA contextTargets :
  Bind(IF contextTargets # <<>> THEN contextTargets ELSE targets, LAMBDA finalTargets :
  IF finalTargets = <<>> /\ action = "address" THEN [r |-> r, result |-> <<>>] ELSE
  Bind(IF action = "thinking" /\ finalTargets = <<>> THEN <<"claude">> ELSE finalTargets,
       LAMBDA resolvedTargets :
  Bind(IF action = "thinking" THEN <<extractDuration(remainder)>> ELSE <<>>,
       LAMBDA durationMs :
    [r |-> IF resolvedTargets # <<>>
           THEN [r EXCEPT !.context = [lastAddressed |-> <<resolvedTargets>>,
                                       lastAction |-> <<action>>]]
           ELSE r,
     result |-> <<Decision(raw, normalized, resolvedTargets, remainder, action, durationMs,
                           IF addressed # <<>> THEN addressed[1].confidence
                           ELSE IF resolvedTargets # <<>> THEN 500 ELSE 300,
                           r.context)>>]))))))))))))

resetContext(r) == [r EXCEPT !.context = [lastAddressed |-> <<>>, lastAction |-> <<>>]]

\* ---- CommandRouter
ADDRESS_KEYWORDS ==
  <<"claude", "guest", "both", "everyone", "all", "showrunner", "autopilot">>

CommandRouter_mapKeywordToTargets(keyword) ==
  CASE keyword = "claude" -> <<"claude">>
    [] keyword = "guest" -> <<"guest">>
    [] keyword \in {"both", "everyone", "all"} -> <<"claude", "guest">>
    [] keyword \in {"showrunner", "autopilot"} -> <<"claude">>
    [] OTHER -> <<>>

CommandRouter_extractAddress(normalized) ==
  LET direct == {k \in Elements(ADDRESS_KEYWORDS) :
                   matchAtStart(normalized, directPattern(k)) # <<>>}
      atStart == {k \in Elements(ADDRESS_KEYWORDS) :
                    startsWith(normalized, k \o ",") \/ startsWith(normalized, k \o " ")}
      inline == {k \in Elements(ADDRESS_KEYWORDS) :
                   LET m == match(normalized, inlinePattern(k))
                   IN m # <<>> /\ m[1] - 1 < 20}
  IN IF direct # {}
     THEN LET keyword == FirstOf(ADDRESS_KEYWORDS, direct)
              m == matchAtStart(normalized, directPattern(keyword))
          IN <<[targets |-> CommandRouter_mapKeywordToTargets(keyword),
                remainder |-> trim(slice(normalized, m[2] - 1)), confidence |-> 900]>>
     ELSE IF atStart # {}
     THEN LET keyword == FirstOf(ADDRESS_KEYWORDS, atStart)
              rest == slice(normalized, Len(keyword))
              m == matchAtStart(rest, {<<Cls({",", " "}, 1)>>})
          IN <<[targets |-> CommandRouter_mapKeywordToTargets(keyword),
                remainder |-> IF m = <<>> THEN rest ELSE slice(rest, m[2] - 1),
                confidence |-> 700]>>
     ELSE IF inline # {}
     THEN LET keyword == FirstOf(ADDRESS_KEYWORDS, inline)
              m == match(normalized, inlinePattern(keyword))
          IN <<[targets |-> CommandRouter_mapKeywordToTargets(keyword),
                remainder |-> trim(slice(normalized, m[2] - 1)), confidence |-> 550]>>
     ELSE <<>>

CommandRouter_thinkingPatterns ==
  {<<Lit({"thinking"}), Sp1, Lit({"mode"})>>,
   <<Lit({"take"}), Sp1, Lit({"a"}), Sp1, Lit({"beat", "moment"})>>,
   <<Lit({"need"}), Sp1, Lit({"to"}), Sp1, Lit({"think"})>>,
   <<Lit({"give"}), Sp1, Lit({"me"}), Sp1, Cls(DigitChars, 0), Sp0,
     Lit({"second", "minute"})>>,
   <<Lit({"countdown"})>>,
   <<Lit({"time"}), Sp1, Lit({"to"}), Sp1, Lit({"think"})>>}

CommandRouter_detectAction(remainder, targets) ==
  LET trimmed == trim(remainder)
  IN IF trimmed = "" THEN (IF targets # <<>> THEN "address" ELSE "broadcast")
     ELSE IF test(trimmed, CommandRouter_thinkingPatterns)
     THEN "thinking"
     ELSE IF targets # <<>> THEN "address" ELSE "broadcast"

CommandRouter_extractDuration(remainder) ==
  LET secondsMatch == match(remainder, {<<Cls(DigitChars, 1), Sp0, Lit({"second", "sec", "s"})>>})
      minutesMatch == match(remainder, {<<Cls(DigitChars, 1), Sp0, Lit({"minute", "min", "m"})>>})
  IN IF secondsMatch # <<>> THEN CapturedNumber(remainder, secondsMatch) * 1000
     ELSE IF minutesMatch # <<>> THEN CapturedNumber(remainder, minutesMatch) * 60000
     ELSE 30000

CommandRouter_route(r, text) ==
  Bind(trim(text), LAMBDA raw :
  IF raw = "" THEN [r |-> r, result |-> <<>>] ELSE
  Bind(toLowerCase(raw), LAMBDA normalized :
  Bind(CommandRouter_extractAddress(normalized), LAMBDA addressed :
  Bind(IF addressed # <<>> THEN addressed[1].targets ELSE <<>>, LAMBDA targets :
  Bind(IF addressed # <<>> THEN addressed[1].remainder ELSE normalized, LAMBDA remainder :
  Bind(CommandRouter_detectAction(remainder, targets), LAMBDA action :
  IF targets = <<>> /\ action = "address" THEN [r |-> r, result |-> <<>>] ELSE
  Bind(IF action = "thinking" /\ targets = <<>> THEN <<"claude">> ELSE targets,
       LAMBDA resolvedTargets :
  Bind(IF action = "thinking" THEN <<CommandRouter_extractDuration(remainder)>> ELSE <<>>,
       LAMBDA durationMs :
    [r |-> r,
     result |-> <<Decision(raw, normalized, resolvedTargets, remainder, action, durationMs,
                           IF addressed # <<>> THEN addressed[1].confidence
                           ELSE IF resolvedTargets # <<>> THEN 500 ELSE 300,
                           r.context)>>]))))))))

\* ------------------------------------------------------ one router alone
Texts ==
  {"Claude, hello", "Guest, your thoughts?", "Both of you, take 10 seconds to think",
   "basil, take a beat", "stop", "turn down the music", "continue",
   "Also respond to this", "give me 5 seconds", "Claude, give me 5 seconds",
   "claude countdown 2 minutes", "hello there", "  ", "claud, hello",
   "hey guest wait a minute", "guest, mute", "same to you", "Claude",
   "guest, quick pause", "thinking mode"}

RouterInit ==
  /\ config = NotInstantiated /\ mgr = NotInstantiated /\ ops = 0
  /\ orch = NoOrchestrator /\ srv = NotInstantiated
  /\ vad = NotInstantiated /\ proc = NotInstantiated
  /\ \E kind \in {"enhanced", "basic"} : rtr = NewRouter(kind)

Route(text) ==
  /\ rtr' = Bind(IF rtr.kind = "enhanced" THEN route(rtr, text)
                 ELSE CommandRouter_route(rtr, text),
                 LAMBDA w : [w.r EXCEPT !.last = w.result])
  /\ UNCHANGED <<config, mgr, ops, orch, srv, vad, proc>>

ResetContext ==
  /\ rtr.kind = "enhanced"
  /\ rtr' = [resetContext(rtr) EXCEPT !.last = <<>>]
  /\ UNCHANGED <<config, mgr, ops, orch, srv, vad, proc>>

RouterNext ==
  \/ \E text \in Texts : Route(text)
  \/ ResetContext

RouterSpec == RouterInit /\ [][RouterNext]_vars

\* ------------------------------- transcripts routed into the orchestrator
\* final transcripts a behaviour may deliver
MaxTranscripts == 2

RoutedTexts ==
  {"Both of you, take 10 seconds to think", "basil, take a beat",
   "Claude, give me 5 seconds", "guest, quick pause", "thinking mode",
   "Claude, hello", "same to you", "hello there"}

\* the session's router is the enhanced one in an enhanced session
RoutedInit ==
  /\ config = [mode |-> "graceful", duckingEnabled |-> TRUE, raising |-> {}]
  /\ mgr = NewManager
  /\ ops = 0
  /\ \E e \in BOOLEAN :
        /\ orch = NewOrchestrator(e, "medium", [a \in Agents |-> TRUE])
        /\ rtr = NewRouter(IF e THEN "enhanced" ELSE "basic")
  /\ srv = register(NewServer, sessionId)
  /\ vad = NotInstantiated /\ proc = NotInstantiated

\* route returned null: handleCommand is not called
NoCommand == [action |-> "none"]

\* a final transcript of the session: captioned, routed, and the decision
\* handled
RoutedTranscript(text) ==
  /\ ops < MaxTranscripts
  /\ Bind(IF orch.useEnhancedFeatures THEN route(rtr, text)
          ELSE CommandRouter_route(rtr, text), LAMBDA w :
     Bind(handleSttTranscript(srv, orch, sessionId, text, TRUE,
                              IF w.result # <<>> THEN w.result[1] ELSE NoCommand),
          LAMBDA v :
            /\ rtr' = [w.r EXCEPT !.last = w.result]
            /\ srv' = v.s
            /\ orch' = v.o))
  /\ ops' = ops + 1
  /\ UNCHANGED <<config, mgr, vad, proc>>

RoutedNext ==
  \/ \E text \in RoutedTexts : RoutedTranscript(text)
  \/ ThinkingTimerFire

RoutedSpec == RoutedInit /\ [][RoutedNext]_vars

\* --------------------------------------- the multi-channel audio processor
ChannelIds == Agents

\* processors: the Map, <<>> for a speaker that has no processor yet
NewMultiChannel(c) == [config |-> c, processors |-> [id \in ChannelIds |-> <<>>]]

getProcessor(mc, speakerId) ==
  IF mc.processors[speakerId] # <<>> THEN mc.processors[speakerId][1]
  ELSE NewAudioProcessor(AudioSampleRate, mc.config.profile, mc.config.rampUpMs,
                         mc.config.rampDownMs, mc.config.curve)

\* result: the processor afterwards, the buffer returned, whether it threw
MultiChannel_processAudio(mc, speakerId, buffer) ==
  Bind(processBuffer(getProcessor(mc, speakerId), buffer), LAMBDA r :
    [mc |-> [mc EXCEPT !.processors[speakerId] = <<r.p>>], out |-> r.out, threw |-> r.threw])

\* mutant: every channel is ducked, whatever speakers are named
MultiChannel_startDucking_All(mc, speakerIds, immediate) ==
  [mc EXCEPT !.processors =
     [id \in ChannelIds |-> <<startDucking(getProcessor(mc, id), immediate)>>]]

\* speakerIds without repetitions
MultiChannel_startDucking(mc, speakerIds, immediate) ==
  [mc EXCEPT !.processors =
     [id \in ChannelIds |->
        IF id \in Range(speakerIds)
        THEN <<startDucking(getProcessor(mc, id), immediate)>> ELSE @[id]]]

MultiChannel_stopDucking(mc, speakerIds, immediate) ==
  [mc EXCEPT !.processors =
     [id \in ChannelIds |->
        IF id \in Range(speakerIds)
        THEN <<stopDucking(getProcessor(mc, id), immediate)>> ELSE @[id]]]

MultiChannelInit ==
  /\ config = NotInstantiated /\ mgr = NotInstantiated /\ ops = 0
  /\ orch = NoOrchestrator /\ srv = NotInstantiated
  /\ vad = NotInstantiated /\ rtr = NotInstantiated
  /\ \E c \in AudioConfigs : proc = [exists |-> TRUE, mc |-> NewMultiChannel(c)]

SpeakerIdLists == {<<>>, <<"claude">>, <<"guest">>, <<"claude", "guest">>}

\* buffers of one sample value, with and without an odd trailing byte
ChannelBuffers == {b \in Buffers : \A i \in 1..Len(b.samples) : b.samples[i] = 1000}

DuckChannels(speakerIds, immediate) ==
  /\ ops < MaxAudioCalls
  /\ proc' = [proc EXCEPT !.mc = MultiChannel_startDucking(@, speakerIds, immediate)]
  /\ ops' = ops + 1
  /\ UNCHANGED <<config, mgr, orch, srv, vad, rtr>>

UnduckChannels(speakerIds, immediate) ==
  /\ ops < MaxAudioCalls
  /\ proc' = [proc EXCEPT !.mc = MultiChannel_stopDucking(@, speakerIds, immediate)]
  /\ ops' = ops + 1
  /\ UNCHANGED <<config, mgr, orch, srv, vad, rtr>>

ProcessChannel(speakerId, buffer) ==
  /\ ops < MaxAudioCalls
  /\ proc' = [proc EXCEPT !.mc = MultiChannel_processAudio(@, speakerId, buffer).mc]
  /\ ops' = ops + 1
  /\ UNCHANGED <<config, mgr, orch, srv, vad, rtr>>

MultiChannelNext ==
  \/ \E speakerIds \in SpeakerIdLists, immediate \in BOOLEAN :
       DuckChannels(speakerIds, immediate)
  \/ \E speakerIds \in SpeakerIdLists, immediate \in BOOLEAN :
       UnduckChannels(speakerIds, immediate)
  \/ \E speakerId \in ChannelIds, buffer \in ChannelBuffers :
       ProcessChannel(speakerId, buffer)

MultiChannelSpec == MultiChannelInit /\ [][MultiChannelNext]_vars

\* --------------------------------------- a manager with a long history
\* one round of interruptions: an agent speaks, the human interrupts, the
\* grace timer (if armed) expires, both stop
AfterGraceTimer(m) ==
  IF m.graceTimer # <<>> THEN graceTimerCallback(m, m.graceTimer[1]) ELSE m

Round(m) ==
  onSpeechEnd(onSpeechEnd(AfterGraceTimer(onSpeechStart(onSpeechStart(m, "claude", 9),
                                                        "you", 8)),
                          "you"),
              "claude")

\* rounds are played until the history holds at least n events
RECURSIVE PlayUntil(_, _)
PlayUntil(m, n) == IF Len(m.bargeInHistory) >= n THEN m ELSE PlayUntil(Round(m), n)

\* the events already recorded when the observation starts
PastEvents == {maxHistorySize - 2, maxHistorySize}

HistoryInit ==
  /\ config \in [mode : BargeInModes \ {"disabled"}, duckingEnabled : {TRUE}, raising : {{}}]
  /\ \E n \in PastEvents : mgr = [PlayUntil(NewManager, n) EXCEPT !.calls = <<>>]
  /\ ops = 0
  /\ orch = NoOrchestrator
  /\ srv = NotInstantiated
  /\ vad = NotInstantiated /\ proc = NotInstantiated /\ rtr = NotInstantiated

HistorySpec == HistoryInit /\ [][Next]_vars

\* ------------------------------------------------ observations of a step
\* events appended to the history / callbacks fired by the step
NewEvents == SubSeq(mgr'.bargeInHistory, Len(mgr.bargeInHistory) + 1, Len(mgr'.bargeInHistory))
NewCalls == SubSeq(mgr'.calls, Len(mgr.calls) + 1, Len(mgr'.calls))

SpeakingAgents(m) == {a \in Agents : m.speaking[a]}
InterruptibleSpeakingAgents(m) == {a \in Agents : m.speaking[a] /\ m.allowInterruption[a]}

PendingOf(m, who) == m.pendingBargeIn # <<>> /\ m.pendingBargeIn[1].interrupter = who

\* a pending barge-in of `who` whose armed timer will interrupt exactly T
ScheduledFor(m, who, T) ==
  /\ PendingOf(m, who)
  /\ m.graceTimer # <<>>
  /\ m.graceTimer[1].interrupter = who
  /\ Range(m.graceTimer[1].targets) = T

\* the step recorded start then complete for `who`, and T is silenced
CompletedBy(who, T, graceUsed) ==
  /\ Len(NewEvents) = 2
  /\ NewEvents[1].type = "barge-in-start" /\ NewEvents[2].type = "barge-in-complete"
  /\ \A i \in 1..2 : /\ NewEvents[i].interrupter = who
                     /\ NewEvents[i].gracePeriodUsed = graceUsed
                     /\ Range(NewEvents[i].interrupted) = T
  /\ \A t \in T : ~mgr'.speaking[t]
  /\ mgr'.pendingBargeIn = <<>>

\* the step recorded exactly one cancelled event for `who` and disarmed the timer
CancelledBy(who) ==
  /\ Len(NewEvents) = 1
  /\ NewEvents[1].type = "barge-in-cancelled" /\ NewEvents[1].interrupter = who
  /\ mgr'.graceTimer = <<>>
  /\ mgr'.pendingBargeIn = <<>>

HumanStart == \E c \in Confidences : SpeechStart("you", c)

\* ---------------------------------------------------------------- C1
\* C1 as stated: in every mode but disabled, a human speech-start while some
\* agent is speaking (whatever the allow_interruption flags) either completes a
\* barge-in that silences every agent that was speaking or stores a pending
\* barge-in for all of them, and a pending barge-in of the human ends only in
\* its completion or in a cancellation by the human's speech-end, and ends.
C1_OrigStart ==
  (HumanStart /\ config.mode # "disabled" /\ SpeakingAgents(mgr) # {})
    => IF config.mode = "immediate"
       THEN CompletedBy("you", SpeakingAgents(mgr), FALSE)
       ELSE ScheduledFor(mgr', "you", SpeakingAgents(mgr))

C1_OrigPending ==
  (PendingOf(mgr, "you") /\ ~PendingOf(mgr', "you"))
    => \/ GraceTimerFire /\ CompletedBy("you", Range(mgr.graceTimer[1].targets), TRUE)
       \/ SpeechEnd("you") /\ CancelledBy("you")

C1_Start ==
  (HumanStart /\ config.mode # "disabled" /\ InterruptibleSpeakingAgents(mgr) # {})
    => IF config.mode = "immediate"
       THEN CompletedBy("you", InterruptibleSpeakingAgents(mgr), FALSE)
       ELSE ScheduledFor(mgr', "you", InterruptibleSpeakingAgents(mgr))

C1_Pending ==
  (PendingOf(mgr, "you") /\ ~PendingOf(mgr', "you"))
    => \/ GraceTimerFire /\ CompletedBy("you", Range(mgr.graceTimer[1].targets), TRUE)
       \/ SpeechEnd("you") /\ CancelledBy("you")
       \/ /\ ~mgr.allowInterruption["you"]
          /\ \E a \in Agents, c \in Confidences : SpeechStart(a, c)
          /\ \E a \in Agents : PendingOf(mgr', a)
          /\ NewEvents = <<>>

C2_DuckingOffOnCancel ==
  [][\A s \in Speakers :
       (SpeechEnd(s) /\ config.mode = "graceful" /\ config.duckingEnabled
          /\ PendingOf(mgr, s) /\ mgr.graceTimer # <<>>)
       => \/ \E i \in 1..Len(NewCalls) :
               NewCalls[i] = Call("onDuckingRequest", "none", mgr.graceTimer[1].targets, FALSE)
          \/ /\ mgr'.graceTimer # <<>>
             /\ mgr'.graceTimer[1].targets = mgr.graceTimer[1].targets]_vars

\* ---------------------------------------------------------------- C4
\* C4: in graceful mode a speech-end of the interrupter of the pending barge-in
\* clears the timer and the pending barge-in, fires onBargeInCancelled once and
\* nothing else, records one cancelled event, leaves the targets' speaking flags
\* as they were; and a start or complete event is only ever recorded by the
\* expiry of an armed timer whose interrupter is still speaking.
C4_CancelStep ==
  \A s \in Speakers :
    (SpeechEnd(s) /\ config.mode = "graceful" /\ PendingOf(mgr, s))
      => /\ CancelledBy(s)
         /\ NewCalls = <<Call("onBargeInCancelled", "none", <<>>, FALSE)>>
         /\ mgr.graceTimer # <<>>
         /\ \A t \in Range(mgr.graceTimer[1].targets) : mgr'.speaking[t] = mgr.speaking[t]

C4_EventsNeedTimer ==
  (config.mode = "graceful"
     /\ \E i \in 1..Len(NewEvents) : NewEvents[i].type # "barge-in-cancelled")
    => /\ mgr.graceTimer # <<>>
       /\ mgr.speaking[mgr.graceTimer[1].interrupter]
       /\ GraceTimerFire

C4_CancelOnSpeechEnd == [][C4_CancelStep /\ C4_EventsNeedTimer]_vars

\* a graceful barge-in was cancelled and nothing is armed any more
C4_Witness ==
  /\ config.mode = "graceful"
  /\ mgr.bargeInHistory # <<>>
  /\ mgr.bargeInHistory[Len(mgr.bargeInHistory)].type = "barge-in-cancelled"
  /\ mgr.graceTimer = <<>>
  /\ \E a \in Agents : mgr.speaking[a]

\* ---------------------------------------------------------------- C5
\* C5: in graceful mode a speech-start records no event; when the timer expires
\* with the interrupter still speaking, start then complete are recorded with
\* grace_period_used, onBargeInStart fires before onBargeInComplete, every
\* target is marked not speaking and no pending barge-in remains.
C5_ExpiryStep ==
  (GraceTimerFire /\ config.mode = "graceful" /\ mgr.speaking[mgr.graceTimer[1].interrupter])
    => LET t == mgr.graceTimer[1]
       IN /\ CompletedBy(t.interrupter, Range(t.targets), TRUE)
          /\ NewEvents[1].interrupted = t.targets
          /\ NewCalls = <<Call("onBargeInStart", t.interrupter, t.targets, FALSE),
                          Call("onBargeInComplete", t.interrupter, t.targets, FALSE)>>
          /\ mgr'.graceTimer = <<>>

C5_NothingBeforeExpiry ==
  ((\E s \in Speakers, c \in Confidences : SpeechStart(s, c)) /\ config.mode = "graceful")
    => NewEvents = <<>>

C5_GracefulExpiry == [][C5_ExpiryStep /\ C5_NothingBeforeExpiry]_vars

\* the last two events are a graceful start/complete pair
C5_Witness ==
  /\ config.mode = "graceful"
  /\ Len(mgr.bargeInHistory) >= 2
  /\ mgr.bargeInHistory[Len(mgr.bargeInHistory)].type = "barge-in-complete"
  /\ mgr.bargeInHistory[Len(mgr.bargeInHistory)].gracePeriodUsed
  /\ mgr.bargeInHistory[Len(mgr.bargeInHistory) - 1].type = "barge-in-start"

\* ---------------------------------------------------------------- C3
\* C3: in an enhanced session in graceful mode, a human speech-start while an
\* agent is producing audio issues no TTS stop request and leaves every such
\* agent in the active-speaker set (a stop may only follow the timer's expiry).
C3_NoStopBeforeExpiry ==
  [][((\E c \in Confidences : VadSpeechStart(c))
        /\ orch.useEnhancedFeatures /\ config.mode = "graceful"
        /\ orch.activeAgentSpeakers # {})
     => /\ orch'.stopRequests = orch.stopRequests
        /\ orch.activeAgentSpeakers \subseteq orch'.activeAgentSpeakers]_vars

\* ---------------------------------------------------------------- C6
\* C6: an agent's speech-start fires a callback, records an event or changes
\* the pending barge-in only if its priority level is strictly greater than
\* that of every interruptible speaker currently speaking.
C6_StrictPriority ==
  [][\A s \in Agents :
       ((\E c \in Confidences : SpeechStart(s, c))
          /\ (NewCalls # <<>> \/ NewEvents # <<>>
                \/ mgr'.pendingBargeIn # mgr.pendingBargeIn
                \/ mgr'.graceTimer # mgr.graceTimer))
       => \A t \in Speakers \ {s} :
            (mgr.speaking[t] /\ mgr.allowInterruption[t])
              => getPriorityLevel(mgr, s) > getPriorityLevel(mgr, t)]_vars

\* ---------------------------------------------------------------- C7
\* C7: an agent TTS chunk is processed with ducking in effect for that agent
\* exactly while the human is between speech-start and speech-end: the channel's
\* target gain is below 1.0 (enhanced) or the static ducking gain is applied
\* (basic) during human speech, and the channel is at or ramping to 1.0 after.
DuckingInEffect(o, a) ==
  IF o.useEnhancedFeatures
  THEN o.audioProcessor[a].rampState.targetGain < GainUnity
  ELSE o.duckingActive

C7_DuckingFollowsHumanSpeech ==
  [][\A a \in Agents :
       (\E n \in ChunkLens : TtsAudioChunk(a, n))
         => (orch.humanSpeaking <=> DuckingInEffect(orch, a))]_vars

\* ---------------------------------------------------------------- C8
\* C8: a speaker whose allow_interruption is false is never listed as
\* interrupted in a recorded event, never named in a ducking request and never
\* has its speaking flag cleared by anything but its own speech-end; a
\* speech-start that finds only such speakers active has no effect beyond the
\* starter's own speaking flag.
C8_NonInterruptible ==
  [][/\ \A i \in 1..Len(NewEvents) :
          \A t \in Range(NewEvents[i].interrupted) : mgr.allowInterruption[t]
     /\ \A i \in 1..Len(NewCalls) :
          NewCalls[i].cb = "onDuckingRequest" =>
            \A t \in Range(NewCalls[i].speakers) : mgr.allowInterruption[t]
     /\ \A t \in Speakers :
          (mgr.speaking[t] /\ ~mgr'.speaking[t] /\ ~SpeechEnd(t)) => mgr.allowInterruption[t]
     /\ \A s \in Speakers :
          ((\E c \in Confidences : SpeechStart(s, c))
             /\ \A t \in Speakers \ {s} : mgr.speaking[t] => ~mgr.allowInterruption[t])
          => /\ NewEvents = <<>> /\ NewCalls = <<>>
             /\ mgr'.pendingBargeIn = mgr.pendingBargeIn
             /\ mgr'.graceTimer = mgr.graceTimer]_vars

\* ---------------------------------------------------------------- C9
\* C9: in immediate mode a speech-start of the human, or of an agent of
\* strictly higher priority than every interruptible active speaker, records
\* start then complete with grace_period_used = false in that call, fires
\* onBargeInStart then onBargeInComplete and no ducking request, silences every
\* interrupted speaker and leaves nothing pending or armed; in immediate mode
\* nothing is ever pending or armed.
InterruptibleOthers(m, s) ==
  {t \in Speakers \ {s} : m.speaking[t] /\ m.allowInterruption[t]}

Authorised(m, s) ==
  /\ InterruptibleOthers(m, s) # {}
  /\ \/ s = "you"
     \/ \A t \in InterruptibleOthers(m, s) : getPriorityLevel(m, s) > getPriorityLevel(m, t)

C9_Step ==
  \A s \in Speakers :
    ((\E c \in Confidences : SpeechStart(s, c))
       /\ config.mode = "immediate" /\ Authorised(mgr, s))
    => LET T == InOrder(InterruptibleOthers(mgr, s))
       IN /\ CompletedBy(s, Range(T), FALSE)
          /\ NewEvents[1].interrupted = T
          /\ NewCalls = <<Call("onBargeInStart", s, T, FALSE),
                          Call("onBargeInComplete", s, T, FALSE)>>
          /\ mgr'.graceTimer = <<>>

C9_ImmediateMode ==
  /\ [][C9_Step]_vars
  /\ [](config.mode = "immediate" => mgr.graceTimer = <<>> /\ mgr.pendingBargeIn = <<>>)

\* an immediate barge-in has been executed on at least one speaker
C9_Witness ==
  /\ config.mode = "immediate"
  /\ Len(mgr.bargeInHistory) >= 2
  /\ mgr.bargeInHistory[Len(mgr.bargeInHistory)].type = "barge-in-complete"
  /\ ~mgr.bargeInHistory[Len(mgr.bargeInHistory)].gracePeriodUsed
  /\ mgr.bargeInHistory[Len(mgr.bargeInHistory)].interrupted # <<>>

\* ---------------------------------------------------------------- C10
\* C10: in disabled mode no event is recorded, nothing is pending, no timer is
\* armed, no callback (so no ducking request) fires, and a speaking flag is
\* cleared only by that speaker's own speech-end, which clears no other flag.
C10_DisabledMode ==
  /\ [](config.mode = "disabled" =>
          /\ mgr.bargeInHistory = <<>> /\ mgr.pendingBargeIn = <<>>
          /\ mgr.graceTimer = <<>> /\ mgr.calls = <<>>)
  /\ [][config.mode = "disabled" =>
          \A t \in Speakers :
            (mgr.speaking[t] /\ ~mgr'.speaking[t])
              => /\ SpeechEnd(t)
                 /\ \A u \in Speakers \ {t} : mgr'.speaking[u] = mgr.speaking[u]]_vars

\* disabled mode, the human has started speaking over both agents, after a speech-end
C10_Witness ==
  /\ config.mode = "disabled"
  /\ \A s \in Speakers : mgr.speaking[s]
  /\ ops > Cardinality(Speakers)

\* ------------------------------------------------- disconnect and barge-in
\* the step restarted an agent channel's gain ramp: a ducking request reached
\* the session's audio processor
DuckingRequested ==
  \E a \in Agents :
    /\ orch'.audioProcessor[a] # orch.audioProcessor[a]
    /\ orch'.audioProcessor[a].rampState.active
    /\ orch'.audioProcessor[a].rampState.elapsedSamples = 0

\* C11: once the session's disconnect has been processed, its barge-in manager
\* has no armed grace timer and no pending barge-in, and from then on no
\* barge-in event is recorded, no TTS stop is requested and no ducking request
\* is made for the session.
C11_DisconnectDropsBargeIn ==
  /\ [](sessionId \in srv.disconnected =>
          mgr.graceTimer = <<>> /\ mgr.pendingBargeIn = <<>>)
  /\ [][(sessionId \in srv.disconnected) =>
          (/\ NewEvents = <<>>
           /\ orch'.stopRequests = orch.stopRequests
           /\ ~DuckingRequested)]_vars

\* ------------------------------------------------------------ thinking mode
\* C12: the orchestrator holds a single shared-screen value, and every entry
\* into thinking mode is matched by exactly one exit (screen back to
\* Conversation with a mode.normal round): exits never outnumber entries, and
\* once no thinking timer is armed, so that no exit can follow, every entry
\* has had its exit.
C12_ExitOncePerEnter ==
  /\ srv.sharedScreen.mode \in {"conversation", "thinking"}
  /\ srv.modeNormalSent <= srv.modeThinkingSent
  /\ srv.thinkingTimer = <<>> => srv.modeNormalSent = srv.modeThinkingSent

\* C13: while the session map is empty the thinking timer is not armed and
\* the shared screen is Conversation; the thinking timer fires only with a
\* session in the map, and the snapshot sent to a client that registers into
\* an empty map shows Conversation.
C13_EmptyMapResets ==
  /\ [](srv.activeSessions = {} =>
          srv.thinkingTimer = <<>> /\ srv.sharedScreen = Conversation)
  /\ [][ThinkingTimerFire => srv.activeSessions # {}]_vars
  /\ [][\A sid \in SessionIds :
          (Register(sid) /\ srv.activeSessions = {})
            => srv'.snapshot = <<Conversation>>]_vars

\* s1 entered thinking mode and disconnected as the last session before the
\* timer expired; s2 registered afterwards
C13_Witness ==
  /\ srv.disconnected = {"s1"} /\ srv.activeSessions = {"s2"}
  /\ srv.modeThinkingSent = 1 /\ srv.modeNormalSent = 0
  /\ srv.thinkingTimer = <<>>
  /\ srv.snapshot = <<Conversation>>

\* --------------------------------------------------------------- TTS errors
\* C14: after a TTS error for an agent that agent is not in the session's
\* active-speaker set and, unless the human is speaking, its orb is
\* 'listening', as after a TTS complete.
C14_TtsErrorOrb ==
  [][\A a \in Agents :
       TtsError(a) =>
         /\ a \notin orch'.activeAgentSpeakers
         /\ ~orch.humanSpeaking => orch'.orbStates[a] = "listening"]_vars

\* ------------------------------------------------------ throwing callbacks
\* the step ended with an exception thrown by the last callback it invoked
Raised == NewCalls # <<>> /\ Throws(NewCalls[Len(NewCalls)].cb)

\* the speech-start of s passes the checks of initiateBargeIn
TriggersBargeIn(m, s) ==
  /\ config.mode # "disabled"
  /\ InterruptibleOthers(m, s) # {}
  /\ canInterrupt(m, s, InOrder(InterruptibleOthers(m, s)))

\* C15: with an onBargeInStart callback that throws, every speech-start that
\* triggers a barge-in, in whichever mode, ends with that exception thrown out
\* of the onSpeechStart call itself.
C15_StartErrorPropagates ==
  [][\A s \in Speakers :
       ((\E c \in Confidences : SpeechStart(s, c))
          /\ Throws("onBargeInStart") /\ TriggersBargeIn(mgr, s))
       => Raised]_vars

\* ------------------------------------------------------------ VAD hysteresis
\* length of the run of consecutive frames of the given level that ends at
\* frame i of the trace
RunLength(i, level) ==
  Cardinality({k \in 1..i : \A j \in (i - k + 1)..i : vad.trace[j].level = level})

\* frames of the given level among those after the last frame before i whose
\* level is in `breaks`, up to and including frame i
CountSince(i, level, breaks) ==
  Cardinality({j \in 1..i :
                 /\ vad.trace[j].level = level
                 /\ \A k \in j..i : vad.trace[k].level \notin breaks})

\* the callback fired last, if none was fired or a reset came after it: "none"
RECURSIVE LastFlip(_)
LastFlip(trace) ==
  IF trace = <<>> THEN "none"
  ELSE LET e == trace[Len(trace)]
       IN IF e.level = "reset" THEN "none"
          ELSE IF e.emitted # "none" THEN e.emitted
          ELSE LastFlip(SubSeq(trace, 1, Len(trace) - 1))

\* C16 as stated: speaking goes from false to true only at a frame completing
\* a run of at least minSpeechFrames consecutive frames at or above the
\* effective speech threshold, and from true to false only at a frame
\* completing a run of at least minSilenceFrames consecutive frames at or
\* below the release threshold.
C16_Original ==
  \A i \in 1..Len(vad.trace) :
    /\ vad.trace[i].emitted = "speech-start"
         => RunLength(i, "speech") >= vad.minSpeechFrames
    /\ vad.trace[i].emitted = "speech-end"
         => RunLength(i, "release") >= vad.minSilenceFrames

\* C16 amended: processing a frame sets speaking only at a frame at or above
\* the effective speech threshold that is at least the minSpeechFrames-th such
\* frame since the last frame at or below the release threshold (or reset, or
\* construction), and clears it only at a frame at or below the release
\* threshold that is at least the minSilenceFrames-th such frame since the
\* last frame at or above the effective speech threshold; frames between the
\* two thresholds may be interleaved.  The flag changes nowhere else but in
\* reset.
C16_Hysteresis ==
  /\ \A i \in 1..Len(vad.trace) :
       /\ vad.trace[i].emitted = "speech-start"
            => /\ vad.trace[i].level = "speech"
               /\ CountSince(i, "speech", {"release", "reset"}) >= vad.minSpeechFrames
       /\ vad.trace[i].emitted = "speech-end"
            => /\ vad.trace[i].level = "release"
               /\ CountSince(i, "release", {"speech", "reset"}) >= vad.minSilenceFrames
  /\ vad.speaking <=> LastFlip(vad.trace) = "speech-start"

\* the enhanced detector, adaptive and confidence-gated as the orchestrator
\* configures it, detected speech on loud frames separated by a frame between
\* the thresholds
C16_Witness ==
  /\ vad.kind = "enhanced" /\ vad.adaptiveThreshold /\ vad.confidenceEnabled
  /\ \E i \in 1..Len(vad.trace) :
       /\ vad.trace[i].emitted = "speech-start"
       /\ RunLength(i, "speech") < vad.minSpeechFrames
       /\ \A j \in 1..i : vad.trace[j].level # "reset"

\* ---------------------------------------------------------------- C17
\* C17: in every ducking state of the channel (unity, ducked, mid-ramp) a
\* process call returns a buffer as long as its input without raising; an odd
\* trailing byte is copied through unchanged and the whole samples before it
\* are processed as they would be without it.
C17_SameLengthNoError ==
  (proc.exists /\ proc.last.op = "processBuffer") =>
    LET c == proc.last
    IN /\ ~c.threw
       /\ Len(c.out.samples) = Len(c.in.samples)
       /\ c.out.tail = c.in.tail
       /\ c.out.samples = processBuffer(c.before, Buffer(c.in.samples, <<>>)).out.samples

\* ---------------------------------------------------------------- C18
\* C18: under any interleaving of start_ducking, stop_ducking and process calls
\* on buffers of even length, an active ramp has 0 <= elapsedSamples <=
\* rampSamples, and once elapsedSamples has reached rampSamples the ramp is
\* inactive with currentGain equal to targetGain.
EvenLengthOnly == proc.exists /\ ~proc.oddSeen

C18_RampInvariant ==
  EvenLengthOnly =>
    LET rs == proc.p.rampState
    IN /\ rs.active => (0 <= rs.elapsedSamples /\ rs.elapsedSamples <= rs.rampSamples)
       /\ rs.elapsedSamples >= rs.rampSamples =>
            (~rs.active /\ rs.currentGain = rs.targetGain)

\* ---------------------------------------------------------------- C19
\* C19: every route call of the enhanced router that returns a decision with
\* a non-empty target set, barge-in-control and ducking-control decisions
\* included, leaves those targets as lastAddressed and the action as
\* lastAction in the router's context.
C19_ContextStored ==
  (rtr.exists /\ rtr.kind = "enhanced" /\ rtr.last # <<>> /\ rtr.last[1].targets # <<>>) =>
    /\ rtr.context.lastAddressed = <<rtr.last[1].targets>>
    /\ rtr.context.lastAction = <<rtr.last[1].action>>

\* ---------------------------------------------------------------- C20
\* C20: whenever a router, enhanced or basic, returns action = thinking, the
\* returned durationMs is at least 10 000.
C20_ThinkingAtLeastTenSeconds ==
  (rtr.exists /\ rtr.last # <<>> /\ rtr.last[1].action = "thinking") =>
    (rtr.last[1].durationMs # <<>> /\ rtr.last[1].durationMs[1] >= 10000)

\* ---------------------------------------------------------------- C21
\* C21: after a route call of the enhanced router that returned a non-empty
\* target set T, an immediately following route call whose text has no
\* address keyword and matches a continuation phrase returns targets = T,
\* and one whose text has an explicit address returns the addressed targets.
IsContinuation(normalized) ==
  \/ matchAtStart(normalized, continuationPatterns) # <<>>
  \/ test(normalized, {<<WordBoundary, Lit({"same", "ditto"}), WordBoundary>>})

C21_ContinuationReusesTargets ==
  [][(/\ rtr.exists /\ rtr.kind = "enhanced"
      /\ rtr.last # <<>> /\ rtr.last[1].targets # <<>>
      /\ rtr'.last # <<>>) =>
       Bind(extractAddress(rtr'.last[1].normalized), LAMBDA addressed :
         /\ (addressed = <<>> /\ IsContinuation(rtr'.last[1].normalized)) =>
              rtr'.last[1].targets = rtr.last[1].targets
         /\ addressed # <<>> => rtr'.last[1].targets = addressed[1].targets)]_vars

\* ---------------------------------------------------------------- C22
\* C22: the context carried in a decision of the enhanced router includes
\* the targets of that same call: context.lastAddressed is the decision's
\* target set whenever that set is not empty.
C22_ResultContextHasOwnTargets ==
  (rtr.exists /\ rtr.kind = "enhanced" /\ rtr.last # <<>> /\ rtr.last[1].targets # <<>>) =>
    rtr.last[1].context.lastAddressed = <<rtr.last[1].targets>>

\* ---------------------------------------------------------------- C23
\* C23: after any sequence of speech-start, speech-end and timer-expiry
\* events the barge-in history holds at most 100 events, and they are the
\* most recently recorded events in recording order: every step leaves the
\* last 100 of the old history followed by the events the step recorded.
NoHistory(m) == [m EXCEPT !.bargeInHistory = <<>>]

\* the last maxHistorySize events of the old history followed by the
\* recorded ones
MostRecent(recorded) ==
  Bind(mgr.bargeInHistory \o recorded, LAMBDA all :
    SubSeq(all, Max(1, Len(all) - maxHistorySize + 1), Len(all)))

C23_HistoryBounded ==
  [][/\ Len(mgr'.bargeInHistory) <= maxHistorySize
     /\ \A s \in Speakers, c \in Confidences :
          SpeechStart(s, c) =>
            mgr'.bargeInHistory = MostRecent(onSpeechStart(NoHistory(mgr), s, c).bargeInHistory)
     /\ \A s \in Speakers :
          SpeechEnd(s) =>
            mgr'.bargeInHistory = MostRecent(onSpeechEnd(NoHistory(mgr), s).bargeInHistory)
     /\ GraceTimerFire =>
          mgr'.bargeInHistory =
            MostRecent(graceTimerCallback(NoHistory(mgr), mgr.graceTimer[1]).bargeInHistory)
    ]_vars

\* the oldest event was dropped for a cancellation recorded at the limit
C23_Witness ==
  /\ mgr # NotInstantiated /\ ops > 0
  /\ Len(mgr.bargeInHistory) = maxHistorySize
  /\ mgr.bargeInHistory[1].type = "barge-in-complete"
  /\ mgr.bargeInHistory[maxHistorySize].type = "barge-in-cancelled"

\* ---------------------------------------------------------------- C24
\* C24: after n final transcripts the caption history holds exactly the
\* min(n, 20) most recent captions, newest first, and every snapshot emitted
\* exposes exactly the min(n, 6) most recent of them.
RecentCaptions(n, limit) ==
  [i \in 1..Min(n, limit) |-> [speaker |-> "you", text |-> n - i + 1]]

C24_CaptionHistory ==
  [][/\ srv'.captions = RecentCaptions(ops', 20)
     /\ \A sid \in SessionIds :
          (RequestState(sid) \/ Register(sid)) =>
            srv'.snapshotCaptions = <<RecentCaptions(ops', 6)>>]_vars

\* more than 20 transcripts were delivered and the latest snapshot came after
\* the last of them
C24_Witness ==
  /\ srv # NotInstantiated /\ ops > 20
  /\ Len(srv.captions) = 20
  /\ srv.snapshotCaptions # <<>>
  /\ Len(srv.snapshotCaptions[1]) = 6
  /\ srv.snapshotCaptions[1][1].text = ops

\* ---------------------------------------------------------------- C25
\* C25: in the multi-channel audio processor, startDucking, stopDucking and
\* processAudio applied to some speakers' channels leave the channel of every
\* other speaker (gains, ramp activity and ramp position) as it was.
ChannelKept(speakerId) == proc'.mc.processors[speakerId] = proc.mc.processors[speakerId]

C25_ChannelsIndependent ==
  [][/\ \A speakerIds \in SpeakerIdLists, immediate \in BOOLEAN :
          (DuckChannels(speakerIds, immediate) \/ UnduckChannels(speakerIds, immediate)) =>
            \A other \in ChannelIds \ Range(speakerIds) : ChannelKept(other)
     /\ \A speakerId \in ChannelIds, buffer \in ChannelBuffers :
          ProcessChannel(speakerId, buffer) =>
            \A other \in ChannelIds \ {speakerId} : ChannelKept(other)]_vars

\* claude's channel is in a ramp towards the ducked gain while guest's channel
\* rests at unity
C25_Witness ==
  /\ proc.exists /\ ops > 0
  /\ proc.mc.processors["claude"] # <<>> /\ proc.mc.processors["guest"] # <<>>
  /\ proc.mc.processors["claude"][1].rampState.active
  /\ proc.mc.processors["claude"][1].rampState.elapsedSamples > 0
  /\ ~proc.mc.processors["guest"][1].rampState.active
  /\ proc.mc.processors["guest"][1].rampState.currentGain = GainUnity

\* ---------------------------------------------------------------- C26
\* C26: in both VAD detectors a trailing partial frame of a chunk is ignored:
\* a chunk of whole frames followed by fewer than frameSamples samples leaves
\* the frame counters, the speaking flag and the emissions as the whole
\* frames alone leave them.
Emissions(v) == SelectSeq(v.trace, LAMBDA e : e.emitted # "none")

WholeFramesOnly(levels, confidences) ==
  Bind(Buffer(ChunkSamples(SubSeq(levels, 1, Len(levels) - 1), vad.frameSamples,
                           vad.frameSamples), <<>>),
       LAMBDA buffer : IF vad.kind = "enhanced"
                       THEN enhancedProcessAudio(vad, buffer, confidences)
                       ELSE processAudio(vad, buffer))

SameDetection(v, w) ==
  /\ v.speechFrameCount = w.speechFrameCount
  /\ v.silenceFrameCount = w.silenceFrameCount
  /\ v.speaking = w.speaking
  /\ Emissions(v) = Emissions(w)

C26_PartialFrameIgnored ==
  [][\A k \in 1..MaxChunkFrames :
       \A levels \in [1..k -> Amplitudes],
          confidences \in [1..k -> IF vad.confidenceEnabled THEN ConfidenceLevels ELSE {0}] :
         (vad.frameSamples > 1 /\ ProcessAudio(levels, 1, <<>>, confidences)) =>
           SameDetection(vad', WholeFramesOnly(levels, confidences))]_vars

\* ---------------------------------------------------------------- C27
\* C27: when thinking mode is entered while an earlier thinking timer is
\* armed, the earlier timer is cancelled: only the timeout of the latest
\* entry stays armed, and the shared screen leaves thinking mode only when
\* that timeout expires or the last session disconnects.
LatestTimeoutOnly(s) == \A t \in s.armedTimers : t.entry = s.modeThinkingSent

C27_EarlierTimerCancelled ==
  [][/\ LatestTimeoutOnly(srv')
     /\ (srv.sharedScreen.mode = "thinking" /\ srv'.sharedScreen.mode # "thinking") =>
          \/ srv'.activeSessions = {}
          \/ \E t \in srv.armedTimers \ srv'.armedTimers : t.entry = srv.modeThinkingSent
    ]_vars

\* thinking mode was entered twice with no expiry and no disconnect in
\* between, and then left by the second timeout
C27_Witness ==
  /\ srv.exists /\ srv.disconnected = {}
  /\ srv.modeThinkingSent = 2 /\ srv.modeNormalSent = 1
  /\ srv.sharedScreen = Conversation

\* ---------------------------------------------------------------- C28
\* C28: for any channel state and any stream of samples, the processor's
\* output and final ramp state are the same however the stream is split into
\* consecutive even-length process calls: the ramp position advances by one
\* per processed sample, and each output sample is the input sample times
\* the gain at that stream position, rounded and saturated to 16 bits.

\* the samples a ramp still has to cover
RampRemaining(rs) == IF rs.active THEN rs.rampSamples - rs.elapsedSamples ELSE 0

\* the gain at the i-th sample of a stream that starts in ramp state rs: the
\* interpolated value while the ramp lasts, the target after it, the held
\* gain when no ramp is active
GainAtPosition(rs, i) ==
  IF ~rs.active THEN rs.currentGain
  ELSE IF i <= RampRemaining(rs)
       THEN computeRampGain([rs EXCEPT !.elapsedSamples = @ + i - 1])
       ELSE rs.targetGain

RoundSaturate(sample, gain) ==
  LET rounded == (2 * sample * gain + GainUnity) \div (2 * GainUnity)
  IN IF rounded < -32768 THEN -32768 ELSE IF rounded > 32767 THEN 32767 ELSE rounded

GainCorrect(rs, in, out) ==
  /\ Len(out) = Len(in)
  /\ \A i \in 1..Len(in) : out[i] = RoundSaturate(in[i], GainAtPosition(rs, i))

\* the ramp position after n more samples
PositionAdvanced(rs, n, after) ==
  rs.active =>
    after.elapsedSamples =
      IF n < RampRemaining(rs) THEN rs.elapsedSamples + n ELSE rs.rampSamples

\* processing the first k samples and then the rest, as two calls
InTwoCalls(p, samples, k) ==
  LET first == processBuffer(p, Buffer(SubSeq(samples, 1, k), <<>>))
      rest == processBuffer(first.p, Buffer(SubSeq(samples, k + 1, Len(samples)), <<>>))
  IN [p |-> rest.p, out |-> first.out.samples \o rest.out.samples]

LastProcessed ==
  /\ proc.exists /\ proc.last.op = "processBuffer" /\ proc.last.in.tail = <<>>

C28_SplitIndependentGain ==
  LastProcessed =>
    LET before == proc.last.before
        in == proc.last.in.samples
    IN /\ \A k \in 0..Len(in) :
            InTwoCalls(before, in, k) = [p |-> proc.p, out |-> proc.last.out.samples]
       /\ PositionAdvanced(before.rampState, Len(in), proc.p.rampState)
       /\ GainCorrect(before.rampState, in, proc.last.out.samples)

\* the same, for ramps of at least one sample
C28_SplitIndependentGain_WholeRamps ==
  (LastProcessed /\ ~(proc.last.before.rampState.active
                      /\ proc.last.before.rampState.rampSamples = 0)) =>
    LET before == proc.last.before
        in == proc.last.in.samples
    IN /\ \A k \in 0..Len(in) :
            InTwoCalls(before, in, k) = [p |-> proc.p, out |-> proc.last.out.samples]
       /\ PositionAdvanced(before.rampState, Len(in), proc.p.rampState)
       /\ GainCorrect(before.rampState, in, proc.last.out.samples)

\* the split alone, zero-sample ramps included
C28_SplitIndependent ==
  LastProcessed =>
    \A k \in 0..Len(proc.last.in.samples) :
      InTwoCalls(proc.last.before, proc.last.in.samples, k)
        = [p |-> proc.p, out |-> proc.last.out.samples]

\* ---------------------------------------------------------------- C29
\* C29: in an enhanced session, at every quiescent state (no handler running),
\* an agent is in the session's active-speaker set if and only if the
\* session's barge-in manager marks that agent as speaking.
Quiescent == \A a \in Agents : orch.stopsInFlight[a] = 0

EnhancedSession == orch.exists /\ orch.useEnhancedFeatures /\ Registered

C29_ActiveSetMatchesManager ==
  (EnhancedSession /\ Quiescent) =>
    \A a \in Agents : a \in orch.activeAgentSpeakers <=> mgr.speaking[a]

\* ---------------------------------------------------------------- C30
\* C30: whenever the human is not marked speaking, an agent's orb is
\* 'speaking' only if that agent is in the session's active-speaker set; in
\* particular, after a human speech-start that stopped a speaking agent and
\* the human's speech-end, that agent's orb is not 'speaking' unless a new TTS
\* chunk from it has been processed.
C30_SpeakingOrbOnlyIfActive ==
  (orch.exists /\ Registered /\ ~orch.humanSpeaking) =>
    \A a \in Agents : orch.orbStates[a] = "speaking" => a \in orch.activeAgentSpeakers

\* the same in the states where no stopAgentPlayback is suspended
C30_SpeakingOrbOnlyIfActive_Quiescent ==
  (orch.exists /\ Registered /\ ~orch.humanSpeaking /\ Quiescent) =>
    \A a \in Agents : orch.orbStates[a] = "speaking" => a \in orch.activeAgentSpeakers

\* ---------------------------------------------------------------- C31
\* C31: whenever the shared screen is Conversation and the human is not
\* marked speaking, no agent orb is 'thinking', for every interleaving of
\* thinking-timer expiry, human speech-start/speech-end and disconnect.
C31_NoThinkingOrbInConversation ==
  (srv.exists /\ srv.sharedScreen = Conversation /\ ~orch.humanSpeaking) =>
    \A a \in Agents : orch.orbStates[a] # "thinking"

\* ---------------------------------------------------------------- C32
\* C32: every barge-in-start and barge-in-complete event lists as interrupted
\* only speakers that were marked speaking when the interruption was
\* executed: a target whose speech ended during the grace period is neither
\* listed nor passed to onBargeInStart/onBargeInComplete when the timer fires.
ExecutionEvents == {"barge-in-start", "barge-in-complete"}
ExecutionCallbacks == {"onBargeInStart", "onBargeInComplete"}

C32_InterruptedWereSpeaking ==
  [][/\ \A i \in 1..Len(NewEvents) :
          NewEvents[i].type \in ExecutionEvents =>
            \A t \in Range(NewEvents[i].interrupted) : mgr.speaking[t]
     /\ \A i \in 1..Len(NewCalls) :
          NewCalls[i].cb \in ExecutionCallbacks =>
            \A t \in Range(NewCalls[i].speakers) : mgr.speaking[t]]_vars

\* the same for the interruptions executed at once by a speech-start
C32_InterruptedWereSpeaking_Immediate ==
  [][(\E s \in Speakers, c \in Confidences : SpeechStart(s, c)) =>
       \A i \in 1..Len(NewEvents) :
          NewEvents[i].type \in ExecutionEvents =>
            \A t \in Range(NewEvents[i].interrupted) : mgr.speaking[t]]_vars

\* ---------------------------------------------------------------- C33
\* C33: every interruption that was scheduled (a pending barge-in stored) is
\* eventually resolved by a barge-in-complete or a barge-in-cancelled event
\* naming its interrupter, also when a different speaker starts speaking and
\* schedules a new barge-in before the first grace timer fires.
ResolvingEvents == {"barge-in-complete", "barge-in-cancelled"}

\* the events recorded so far that resolve an interruption of `who`
Resolutions(m, who) ==
  Cardinality({i \in 1..Len(m.bargeInHistory) :
                 /\ m.bargeInHistory[i].type \in ResolvingEvents
                 /\ m.bargeInHistory[i].interrupter = who})

C33_ScheduledIsResolved ==
  \A who \in Speakers, k \in 0..MaxOps :
     (PendingOf(mgr, who) /\ Resolutions(mgr, who) = k) ~> (Resolutions(mgr, who) > k)

\* ---------------------------------------------------------------- C34
\* C34: if a barge-in callback raises while an interruption is executed, the
\* manager is not left half-updated: either the interrupted speakers are
\* marked not speaking, barge-in-complete is recorded and the pending
\* barge-in is cleared, or none of the interruption's effects (its
\* barge-in-start event included) is visible; in every reachable state each
\* barge-in-start event in the history is directly followed by its
\* barge-in-complete event.
StartFollowedByComplete(h) ==
  \A i \in 1..Len(h) :
     h[i].type = "barge-in-start" =>
       /\ i < Len(h)
       /\ h[i + 1] = [h[i] EXCEPT !.type = "barge-in-complete"]

\* a step that recorded a barge-in-start has all of the interruption's effects
ExecutedWhole ==
  \A i \in 1..Len(NewEvents) :
     NewEvents[i].type = "barge-in-start" =>
       /\ \A t \in Range(NewEvents[i].interrupted) : ~mgr'.speaking[t]
       /\ mgr'.pendingBargeIn = <<>>
       /\ i < Len(NewEvents)
       /\ NewEvents[i + 1].type = "barge-in-complete"

C34_ExecutionNotHalfDone ==
  /\ [][ExecutedWhole]_vars
  /\ []StartFollowedByComplete(mgr.bargeInHistory)

\* ---------------------------------------------------------------- C35
\* C35: a TTS stop request that completes asynchronously never removes from
\* the active-speaker set, nor sets to 'listening' the orb of, an agent whose
\* new TTS turn started (its first chunk was processed) after the stop was
\* requested.
\* In a basic session every stop request comes from handleHumanSpeechStart,
\* which empties the active-speaker set in the same call: an agent found in
\* the set when a stop settles has started a new turn since the request.
BasicSession == orch.exists /\ ~orch.useEnhancedFeatures

C35_StopSparesNewTurn ==
  [][\A a \in Agents :
       (StopSettled(a) /\ BasicSession /\ a \in orch.activeAgentSpeakers) =>
          /\ a \in orch'.activeAgentSpeakers
          /\ orch'.orbStates[a] = orch.orbStates[a]]_vars

\* ---------------------------------------------------------------- C36
\* the orchestrator's handlers and timers all get to run
ServerFairSpec == ServerSpec /\ WF_vars(ServerNext)

\* C36: every session that is added to the session map is eventually removed
\* after its transport disconnects, also when the recorder's or the event
\* log's stop fails during cleanup.
C36_DisconnectedIsRemoved ==
  \A sid \in SessionIds :
     (sid \in srv.disconnected) ~> (sid \notin srv.activeSessions)

\* the same for the disconnects whose cleanup met no failing stop
C36_CleanDisconnectRemoves ==
  [][\A sid \in SessionIds :
       Disconnect(sid, TRUE) => sid \notin srv'.activeSessions]_vars

\* ---------------------------------------------------------------- C37
\* C37: for every transcript from which the router produces a thinking
\* command, the speaker of the resulting Thinking shared screen, and the orb
\* set to 'thinking', is an agent: the human's orb is never set to
\* 'thinking' and exactly one agent orb is 'thinking' while the other is
\* 'muted'.
RoutedThinking == rtr'.last # <<>> /\ rtr'.last[1].action = "thinking"

C37_ThinkingSpeakerIsAgent ==
  [][\A text \in RoutedTexts :
       (RoutedTranscript(text) /\ RoutedThinking) =>
          /\ srv'.sharedScreen.mode = "thinking"
          /\ srv'.sharedScreen.thinking.speaker \in Agents
          /\ orch'.orbStates["you"] # "thinking"
          /\ \E a \in Agents :
                /\ orch'.orbStates[a] = "thinking"
                /\ \A b \in Agents \ {a} : orch'.orbStates[b] = "muted"]_vars

\* ---------------------------------------------------------------- C38
\* C38: at every quiescent state of the orchestrator the thinking timer is
\* armed if and only if the shared screen is Thinking, and while it is armed
\* its expiry time is the shared screen's ends_at.
\* Both ends_at and the timeout are startedAt + durationMs of one
\* enterThinkingMode call: they agree when the armed timeout is the one of
\* the call that wrote the screen and has its duration.
TimerArmed == srv.armedTimers # {}

C38_TimerArmedIffThinking ==
  srv.exists =>
    /\ TimerArmed <=> srv.sharedScreen.mode = "thinking"
    /\ srv.armedTimers = Range(srv.thinkingTimer)
    /\ \A t \in srv.armedTimers :
          /\ t.entry = srv.modeThinkingSent
          /\ t.durationMs = srv.sharedScreen.thinking.durationMs

\* thinking mode entered a second time, for 10 s, after a session has
\* disconnected, and its timer armed
C38_Witness ==
  /\ srv.exists /\ TimerArmed
  /\ srv.modeThinkingSent = 2 /\ srv.modeNormalSent = 1
  /\ srv.disconnected # {}
  /\ srv.sharedScreen.mode = "thinking"
  /\ srv.sharedScreen.thinking.durationMs = 10000

\* ---------------------------------------------------------------- C39
\* C39: during a single ramp the gain applied to successive samples moves
\* monotonically from the gain in effect when the ramp was started to the
\* target gain and never leaves the interval between them, for every curve
\* and every ramp duration, one that rounds down to zero samples included.

\* the gain processBuffer applies to the next sample
GainOf(rs) == IF rs.active THEN computeRampGain(rs) ELSE rs.currentGain

\* the ramp state after k more samples (the sample values do not matter)
RampAfter(rs, k) == processSamples(rs, [i \in 1..k |-> 0], <<>>).rampState

\* the gain applied to the i-th sample of a call entered in ramp state rs;
\* for i = 0, the gain of the sample before the call
AppliedGain(rs, i) == IF i = 0 THEN rs.currentGain ELSE GainOf(RampAfter(rs, i - 1))

Between(a, x, b) == (a <= x /\ x <= b) \/ (b <= x /\ x <= a)

MonotoneRamp(rs, n) ==
  \A i \in 1..n :
     /\ Between(rs.startGain, AppliedGain(rs, i), rs.targetGain)
     /\ Between(AppliedGain(rs, i - 1), AppliedGain(rs, i), rs.targetGain)

C39_RampMonotone ==
  (LastProcessed /\ proc.last.before.rampState.active) =>
    MonotoneRamp(proc.last.before.rampState, Len(proc.last.in.samples))

\* the same for ramps of at least one sample
C39_RampMonotone_WholeRamps ==
  (LastProcessed /\ proc.last.before.rampState.active
                 /\ proc.last.before.rampState.rampSamples > 0) =>
    MonotoneRamp(proc.last.before.rampState, Len(proc.last.in.samples))

\* ---------------------------------------------------------------- C40
\* C40: over any sequence of processAudio and reset calls on a VAD detector,
\* speech-start and speech-end callbacks strictly alternate beginning with
\* speech-start: no two speech-starts without a speech-end between them and
\* no speech-end without a preceding unmatched speech-start.
Callbacks(trace) == SelectSeq(trace, LAMBDA f : f.emitted # "none")

Alternating(cbs) ==
  \A i \in 1..Len(cbs) :
     cbs[i].emitted = IF i % 2 = 1 THEN "speech-start" ELSE "speech-end"

C40_CallbacksAlternate == vad.exists => Alternating(Callbacks(vad.trace))

\* the same while the detector has not been reset
NeverReset(trace) == \A i \in 1..Len(trace) : trace[i].level # "reset"

C40_CallbacksAlternate_NoReset ==
  (vad.exists /\ NeverReset(vad.trace)) => Alternating(Callbacks(vad.trace))

====
